---------------------------- MODULE Spec2Model ----------------------------
(***************************************************************************)
(* Traffic-simulation core of the city-driving demo:                       *)
(*   TrafficLight      (src/src/js/TrafficLight.js)                        *)
(*   CityRoadNetwork, TrafficManager (src/src/js/CityRoadNetwork.js)       *)
(*   NPCVehicle, NPCManager          (src/src/js/NPCVehicle.js)            *)
(*                                                                         *)
(* Numbers are fixed point.  Time is counted in 1/TScale seconds, speed in *)
(* 1/VScale units per second and length in 1/PScale world units, with      *)
(* PScale = TScale * VScale, so that  position += speed * delta  is exact. *)
(***************************************************************************)
EXTENDS Integers, Sequences, FiniteSets, TLC

VARIABLES
    trafficLights,  \* TrafficManager.trafficLights: intersection id -> TrafficLight
    vehicles,       \* NPCManager.vehicles: sequence of NPCVehicle
    cars,           \* NPCManager.cars (the car layer with the crude collision response)
    net,            \* CityRoadNetwork: segments, intersections, waypoints, lanes
    pc,             \* where the driver of the scenario stands
    call,           \* the inputs of the scenario / of the last call
    ret             \* the value the last query returned

vars == <<trafficLights, vehicles, cars, net, pc, call, ret>>

----------------------------------------------------------------------------
(* Units *)

TScale == 100
VScale == 4
PScale == TScale * VScale

Abs(n) == IF n < 0 THEN -n ELSE n
Min(a, b) == IF a < b THEN a ELSE b
Max(a, b) == IF a > b THEN a ELSE b

NoCall == [op |-> "none"]
NoRet == [kind |-> "none"]
EmptyNet == [segments |-> <<>>, intersections |-> <<>>, waypoints |-> <<>>, lanes |-> <<>>]

----------------------------------------------------------------------------
(* Fixed-point arithmetic standing for Math.sqrt, Math.sin, Math.cos, Math.ceil *)

RECURSIVE SqrtSearch(_, _, _)
SqrtSearch(n, lo, hi) ==
    IF lo >= hi THEN lo
    ELSE LET mid == (lo + hi + 1) \div 2
         IN  IF mid * mid <= n THEN SqrtSearch(n, mid, hi) ELSE SqrtSearch(n, lo, mid - 1)

\* floor of the square root, n < 2^31
ISqrt(n) == SqrtSearch(n, 0, 46340)

\* Math.sqrt(dx*dx + dz*dz) of two lengths in 1/PScale units; exact on an axis,
\* to 1/25 of a world unit elsewhere
Hypot(dx, dz) ==
    IF dz = 0 THEN Abs(dx)
    ELSE IF dx = 0 THEN Abs(dz)
    ELSE 16 * ISqrt((Abs(dx) \div 16) * (Abs(dx) \div 16) + (Abs(dz) \div 16) * (Abs(dz) \div 16))

\* distance < r, decided on the squares when they fit
DistLess(dx, dz, r) ==
    /\ Abs(dx) < r
    /\ Abs(dz) < r
    /\ IF r <= 30000 THEN dx * dx + dz * dz < r * r ELSE Hypot(dx, dz) < r

\* distance <= r, for r up to 30000 (75 world units)
DistLeq(dx, dz, r) ==
    /\ Abs(dx) <= r
    /\ Abs(dz) <= r
    /\ dx * dx + dz * dz <= r * r

CeilDiv(a, b) == (a + b - 1) \div b

\* angles are counted in 1/AngleDen of a full turn
AngleDen == 1680

\* sin of n/AngleDen turns in 1/10000, by Bhaskara's rational approximation
SinE4(n) ==
    LET m == n % AngleDen
        h == AngleDen \div 2
        k == IF m < h THEN m ELSE m - h
        g == k * (AngleDen - 2 * k)
        v == (((32 * g) \div 64) * 10000) \div ((5 * AngleDen * AngleDen - 8 * g) \div 64)
    IN  IF m < h THEN v ELSE -v

CosE4(n) == SinE4(n + AngleDen \div 4)

\* a quarter turn (PI/2) and a half turn (PI)
Quarter == AngleDen \div 4
HalfTurn == AngleDen \div 2

\* the headings along the axes: 0 is +z, a quarter turn is +x
Headings == {0, Quarter, 2 * Quarter, 3 * Quarter}
\* Math.sin(h), Math.cos(h) of a heading h, in 1/10000: exact along the axes
SinQ(h) == SinE4(h)
CosQ(h) == CosE4(h)
\* a product with SinQ or CosQ brought back to its own unit, rounded toward 0
Unscaled(a) == IF a >= 0 THEN a \div 10000 ELSE -((-a) \div 10000)

\* the largest angle a in lo..hi (within the first quarter turn) at which the
\* direction (sin a, cos a) has not yet turned past (ax, az)
RECURSIVE AngleSearch(_, _, _, _)
AngleSearch(ax, az, lo, hi) ==
    IF lo >= hi THEN lo
    ELSE LET mid == (lo + hi + 1) \div 2
         IN  IF ax * CosE4(mid) - az * SinE4(mid) >= 0
             THEN AngleSearch(ax, az, mid, hi)
             ELSE AngleSearch(ax, az, lo, mid - 1)

\* Math.atan2(dx, dz) in 1/AngleDen turns, in -HalfTurn..HalfTurn; exact along the axes
Atan2(dx, dz) ==
    LET shrink == 1 + Max(Abs(dx), Abs(dz)) \div 50000
        ax == Abs(dx) \div shrink
        az == Abs(dz) \div shrink
        a == IF ax = 0 THEN 0 ELSE IF az = 0 THEN Quarter ELSE AngleSearch(ax, az, 0, Quarter)
    IN  IF dx >= 0 THEN (IF dz >= 0 THEN a ELSE HalfTurn - a)
        ELSE (IF dz >= 0 THEN -a ELSE a - HalfTurn)

\* while (angleDiff > Math.PI) angleDiff -= Math.PI * 2;
\* while (angleDiff < -Math.PI) angleDiff += Math.PI * 2;
NormalizeAngle(angleDiff) ==
    LET m == angleDiff % AngleDen
    IN  IF angleDiff > HalfTurn THEN (IF m > HalfTurn THEN m - AngleDen ELSE m)
        ELSE IF angleDiff < -HalfTurn THEN (IF m >= HalfTurn THEN m - AngleDen ELSE m)
        ELSE angleDiff

\* a * b / c rounded toward 0, c > 0
MulDiv(a, b, c) == IF a * b >= 0 THEN (a * b) \div c ELSE -((-(a * b)) \div c)

\* String.prototype.includes / startsWith
Includes(str, sub) ==
    \E i \in 1..(Len(str) - Len(sub) + 1) : SubSeq(str, i, i + Len(sub) - 1) = sub
StartsWith(str, sub) == Len(str) >= Len(sub) /\ SubSeq(str, 1, Len(sub)) = sub

----------------------------------------------------------------------------
(* CityRoadNetwork: construction *)

\* a point given in world units
Pt(x, z) == [x |-> x * PScale, z |-> z * PScale]

mainRoadWidth == 10
sideRoadWidth == 6
highwayWidth == 14
\* laneWidth 2.5, in 1/PScale units
laneWidth == 1000

Segment(id, type, start, end, width, lanes, speedLimit, isCurved, direction) ==
    [ id |-> id, type |-> type, start |-> start, end |-> end,
      width |-> width * PScale, lanes |-> lanes, speedLimit |-> speedLimit * VScale,
      isCurved |-> isCurved, direction |-> direction,
      curveRadius |-> 0, curveStartAngle |-> 0, curveEndAngle |-> 0 ]

horizontalPositions == <<-80, 0, 80>>
verticalPositions == <<-80, 0, 80>>

createMainRoads(n) ==
    [n EXCEPT !.segments = @
        \o [k \in 1..3 |-> Segment("main-h" \o ToString(k - 1), "main",
                Pt(-120, horizontalPositions[k]), Pt(120, horizontalPositions[k]),
                mainRoadWidth, 4, 50, FALSE, "horizontal")]
        \o [k \in 1..3 |-> Segment("main-v" \o ToString(k - 1), "main",
                Pt(verticalPositions[k], -120), Pt(verticalPositions[k], 120),
                mainRoadWidth, 4, 50, FALSE, "vertical")]]

sidePositionsH == <<-40, 40>>
sidePositionsV == <<-40, 40>>

createSideStreets(n) ==
    [n EXCEPT !.segments = @
        \o [k \in 1..2 |-> Segment("side-h" \o ToString(k - 1), "side",
                Pt(-80, sidePositionsH[k]), Pt(80, sidePositionsH[k]),
                sideRoadWidth, 2, 30, FALSE, "horizontal")]
        \o [k \in 1..2 |-> Segment("side-v" \o ToString(k - 1), "side",
                Pt(sidePositionsV[k], -80), Pt(sidePositionsV[k], 80),
                sideRoadWidth, 2, 30, FALSE, "vertical")]]

highwayRadius == 140
numSegments == 16

\* the point at angle a (in 1/AngleDen turns) on the circle of radius r (1/PScale units)
OnCircle(r, a) == [x |-> (r * CosE4(a)) \div 10000, z |-> (r * SinE4(a)) \div 10000]

createHighwayLoop(n) ==
    [n EXCEPT !.segments = @
        \o [k \in 1..numSegments |->
              LET angle1 == ((k - 1) * AngleDen) \div numSegments
                  angle2 == (k * AngleDen) \div numSegments
              IN  [ Segment("highway-" \o ToString(k - 1), "highway",
                        OnCircle(highwayRadius * PScale, angle1),
                        OnCircle(highwayRadius * PScale, angle2),
                        highwayWidth, 4, 80, TRUE, "circular")
                    EXCEPT !.curveRadius = highwayRadius * PScale,
                           !.curveStartAngle = angle1,
                           !.curveEndAngle = angle2 ]]]

connectorConfigs ==
    << [from |-> Pt(120, 0),  to |-> Pt(140, 0)],
       [from |-> Pt(-120, 0), to |-> Pt(-140, 0)],
       [from |-> Pt(0, 120),  to |-> Pt(0, 140)],
       [from |-> Pt(0, -120), to |-> Pt(0, -140)] >>

createCurvedConnectors(n) ==
    [n EXCEPT !.segments = @
        \o [k \in 1..Len(connectorConfigs) |->
              Segment("connector-" \o ToString(k - 1), "connector",
                  connectorConfigs[k].from, connectorConfigs[k].to,
                  mainRoadWidth, 2, 40, TRUE, "connector")]]

Intersection(id, x, z, hasTrafficLight, connectedRoads, size) ==
    [ id |-> id, position |-> Pt(x, z), type |-> "four-way",
      hasTrafficLight |-> hasTrafficLight, connectedRoads |-> connectedRoads,
      size |-> size * PScale ]

mainPositions == <<-80, 0, 80>>
sideH == <<-40, 40>>
sideV == <<-40, 40>>

createIntersections(n) ==
    [n EXCEPT !.intersections = @
        \* main road intersections: x outer, z inner
        \o [k \in 1..9 |->
              LET xi == (k - 1) \div 3
                  zi == (k - 1) % 3
              IN  Intersection("intersection-" \o ToString(xi) \o "-" \o ToString(zi),
                      mainPositions[xi + 1], mainPositions[zi + 1], TRUE,
                      <<"main-h" \o ToString(zi), "main-v" \o ToString(xi)>>, mainRoadWidth)]
        \* side street intersections: z outer, x inner
        \o [k \in 1..4 |->
              LET zi == (k - 1) \div 2
                  xi == (k - 1) % 2
              IN  Intersection("side-intersection-" \o ToString(xi) \o "-" \o ToString(zi),
                      sideV[xi + 1], sideH[zi + 1], FALSE,
                      <<"side-h" \o ToString(zi), "side-v" \o ToString(xi)>>, sideRoadWidth)]
        \* main-side intersections: per main position two cross-v, then two cross-h
        \o [k \in 1..12 |->
              LET mi == (k - 1) \div 4
                  r == (k - 1) % 4
                  si == r % 2
              IN  IF r < 2
                  THEN Intersection("cross-v" \o ToString(mi) \o "-sh" \o ToString(si),
                           mainPositions[mi + 1], sideH[si + 1], TRUE,
                           <<"main-v" \o ToString(mi), "side-h" \o ToString(si)>>, mainRoadWidth)
                  ELSE Intersection("cross-h" \o ToString(mi) \o "-sv" \o ToString(si),
                           sideV[si + 1], mainPositions[mi + 1], TRUE,
                           <<"main-h" \o ToString(mi), "side-v" \o ToString(si)>>, mainRoadWidth)]]

\* waypointSpacing 8, in 1/PScale units
waypointSpacing == 3200

\* 2 * PI * r with PI = 355/113
Circumference(r) == (r * 710) \div 113

\* the waypoint loop runs one position short: for (i = 0; i < numPoints; i++)
LongitudinalCountShort(numPoints) == numPoints

\* for (let i = 0; i <= numPoints; i++): the number of longitudinal positions
LongitudinalCount(numPoints) == numPoints + 1

\* a waypoint id that leaves the lane out
WaypointIdNoLane(segment, i, lane) == segment.id \o "-wp" \o ToString(i)

\* `${segment.id}-wp${i}-lane${lane}`
WaypointId(segment, i, lane) ==
    segment.id \o "-wp" \o ToString(i) \o "-lane" \o ToString(lane)

\* lane < segment.lanes / 2 ? 1 : -1
LaneDirection(segment, lane) == IF 2 * lane < segment.lanes THEN 1 ELSE -1

\* (lane - (segment.lanes - 1) / 2) * this.laneWidth
LaneOffset(segment, lane) == ((2 * lane - (segment.lanes - 1)) * laneWidth) \div 2

\* the number of intervals a segment is cut into
NumPoints(segment) ==
    IF segment.isCurved /\ segment.curveRadius # 0
    THEN LET arcLength == (Circumference(segment.curveRadius)
                              * Abs(segment.curveEndAngle - segment.curveStartAngle))
                          \div AngleDen
         IN  Max(3, CeilDiv(arcLength, waypointSpacing))
    ELSE LET length == Hypot(segment.end.x - segment.start.x, segment.end.z - segment.start.z)
         IN  Max(2, CeilDiv(length, waypointSpacing))

\* the waypoint of a segment at longitudinal index i on a lane
Waypoint(segment, i, lane) ==
    LET numPoints == NumPoints(segment)
        laneOffset == LaneOffset(segment, lane)
        position ==
            IF segment.isCurved /\ segment.curveRadius # 0
            THEN OnCircle(segment.curveRadius + laneOffset,
                     segment.curveStartAngle
                       + (i * (segment.curveEndAngle - segment.curveStartAngle)) \div numPoints)
            ELSE LET dx == segment.end.x - segment.start.x
                     dz == segment.end.z - segment.start.z
                     length == Hypot(dx, dz)
                 IN  [x |-> segment.start.x + (i * dx) \div numPoints
                                + ((-dz) * laneOffset) \div length,
                      z |-> segment.start.z + (i * dz) \div numPoints
                                + (dx * laneOffset) \div length]
    IN  [ id |-> WaypointId(segment, i, lane), position |-> position, lane |-> lane,
          segmentId |-> segment.id, direction |-> LaneDirection(segment, lane) ]

\* the local `waypoints` array of one segment: index outer, lane inner
SegmentWaypoints(segment) ==
    [k \in 1..(LongitudinalCount(NumPoints(segment)) * segment.lanes) |->
        Waypoint(segment, (k - 1) \div segment.lanes, (k - 1) % segment.lanes)]

\* waypoints.filter(w => w.lane === lane).map(w => w.id)
LaneWaypointIds(wps, lane) ==
    LET own == SelectSeq(wps, LAMBDA w : w.lane = lane)
    IN  [k \in 1..Len(own) |-> own[k].id]

\* this.waypoints.set(wp.id, wp) for every element of wps, in order
SetAll(map, wps) ==
    LET ids == {wps[k].id : k \in 1..Len(wps)}
        last(id) == CHOOSE k \in 1..Len(wps) :
                        /\ wps[k].id = id
                        /\ \A j \in (k + 1)..Len(wps) : wps[j].id # id
    IN  [id \in ids |-> wps[last(id)]] @@ map

\* the body of segments.forEach in generateWaypoints
GenerateSegment(n, segment) ==
    LET wps == SegmentWaypoints(segment)
    IN  [n EXCEPT
           !.waypoints = SetAll(@, wps),
           !.lanes = @ \o [k \in 1..segment.lanes |->
                              [ id |-> segment.id \o "-lane" \o ToString(k - 1),
                                segmentId |-> segment.id,
                                laneIndex |-> k - 1,
                                direction |-> LaneDirection(segment, k - 1),
                                speedLimit |-> segment.speedLimit,
                                waypoints |-> LaneWaypointIds(wps, k - 1) ]]]

RECURSIVE GenerateFrom(_, _)
GenerateFrom(n, k) ==
    IF k > Len(n.segments) THEN n
    ELSE GenerateFrom(GenerateSegment(n, n.segments[k]), k + 1)

generateWaypoints(n) == GenerateFrom(n, 1)

\* build(), called by the constructor on empty storage
CityRoadNetwork_build ==
    generateWaypoints(createIntersections(createCurvedConnectors(
        createHighwayLoop(createSideStreets(createMainRoads(EmptyNet))))))

\* the network as it stands after construction
RoadNetwork == CityRoadNetwork_build

getTrafficLightIntersections(n) == SelectSeq(n.intersections, LAMBDA i : i.hasTrafficLight)

----------------------------------------------------------------------------
(* TrafficLight *)

\* A phase table that lets east-west go while north-south is still yellow.
TrafficLightPhasesEarlyGreen ==
    << [name |-> "NS_GREEN",  duration |-> 10 * TScale, ns |-> "green",  ew |-> "red"],
       [name |-> "NS_YELLOW", duration |-> 2 * TScale,  ns |-> "yellow", ew |-> "green"],
       [name |-> "ALL_RED_1", duration |-> 1 * TScale,  ns |-> "red",    ew |-> "red"],
       [name |-> "EW_GREEN",  duration |-> 10 * TScale, ns |-> "red",    ew |-> "green"],
       [name |-> "EW_YELLOW", duration |-> 2 * TScale,  ns |-> "red",    ew |-> "yellow"],
       [name |-> "ALL_RED_2", duration |-> 1 * TScale,  ns |-> "red",    ew |-> "red"] >>

\* A phase table whose east-west yellow lasts 3 s instead of 2 s.
TrafficLightPhasesLongYellow ==
    << [name |-> "NS_GREEN",  duration |-> 10 * TScale, ns |-> "green",  ew |-> "red"],
       [name |-> "NS_YELLOW", duration |-> 2 * TScale,  ns |-> "yellow", ew |-> "red"],
       [name |-> "ALL_RED_1", duration |-> 1 * TScale,  ns |-> "red",    ew |-> "red"],
       [name |-> "EW_GREEN",  duration |-> 10 * TScale, ns |-> "red",    ew |-> "green"],
       [name |-> "EW_YELLOW", duration |-> 3 * TScale,  ns |-> "red",    ew |-> "yellow"],
       [name |-> "ALL_RED_2", duration |-> 1 * TScale,  ns |-> "red",    ew |-> "red"] >>

\* this.phases of the constructor
TrafficLightPhases ==
    << [name |-> "NS_GREEN",  duration |-> 10 * TScale, ns |-> "green",  ew |-> "red"],
       [name |-> "NS_YELLOW", duration |-> 2 * TScale,  ns |-> "yellow", ew |-> "red"],
       [name |-> "ALL_RED_1", duration |-> 1 * TScale,  ns |-> "red",    ew |-> "red"],
       [name |-> "EW_GREEN",  duration |-> 10 * TScale, ns |-> "red",    ew |-> "green"],
       [name |-> "EW_YELLOW", duration |-> 2 * TScale,  ns |-> "red",    ew |-> "yellow"],
       [name |-> "ALL_RED_2", duration |-> 1 * TScale,  ns |-> "red",    ew |-> "red"] >>

\* new TrafficLight(scene, intersection): the state-machine fields
NewTrafficLight(intersection) ==
    [ intersection      |-> intersection,
      phases            |-> TrafficLightPhases,
      currentPhaseIndex |-> 0,
      phaseTimer        |-> 0,
      phaseOffset       |-> 0 ]

\* update(delta) that carries the overshoot into the next phase
TrafficLight_updateCarry(light, delta) ==
    LET timer == light.phaseTimer + delta
        currentPhase == light.phases[light.currentPhaseIndex + 1]
    IN  IF timer >= currentPhase.duration
        THEN [light EXCEPT !.phaseTimer = timer - currentPhase.duration,
                           !.currentPhaseIndex =
                               (light.currentPhaseIndex + 1) % Len(light.phases)]
        ELSE [light EXCEPT !.phaseTimer = timer]

\* update(delta)
TrafficLight_update(light, delta) ==
    LET timer == light.phaseTimer + delta
        currentPhase == light.phases[light.currentPhaseIndex + 1]
    IN  IF timer >= currentPhase.duration
        THEN [light EXCEPT !.phaseTimer = 0,
                           !.currentPhaseIndex =
                               (light.currentPhaseIndex + 1) % Len(light.phases)]
        ELSE [light EXCEPT !.phaseTimer = timer]

\* getState(direction)
TrafficLight_getState(light, direction) ==
    LET phase == light.phases[light.currentPhaseIndex + 1]
    IN  IF direction = "north" \/ direction = "south" THEN phase.ns ELSE phase.ew

RECURSIVE SumDurations(_, _)
SumDurations(phases, i) ==
    IF i > Len(phases) THEN 0 ELSE phases[i].duration + SumDurations(phases, i + 1)

\* getTotalCycleDuration()
TrafficLight_getTotalCycleDuration(light) == SumDurations(light.phases, 1)

\* the for loop of setPhaseOffset, from phase i (1-based here) with `elapsed` left
RECURSIVE FindPhaseForOffset(_, _, _)
FindPhaseForOffset(light, i, elapsed) ==
    IF i > Len(light.phases) THEN light
    ELSE IF elapsed < light.phases[i].duration
         THEN [light EXCEPT !.currentPhaseIndex = i - 1, !.phaseTimer = elapsed]
         ELSE FindPhaseForOffset(light, i + 1, elapsed - light.phases[i].duration)

\* setPhaseOffset(offset) that keeps the whole remainder as the phase timer
TrafficLight_setPhaseOffsetNoWalk(light, offset) ==
    LET seeded == [light EXCEPT !.phaseOffset = offset,
                                !.phaseTimer = offset % TrafficLight_getTotalCycleDuration(light)]
    IN  [seeded EXCEPT !.currentPhaseIndex = IF seeded.phaseTimer < 10 * TScale THEN 0 ELSE 1]

\* setPhaseOffset(offset)
TrafficLight_setPhaseOffset(light, offset) ==
    LET seeded == [light EXCEPT !.phaseOffset = offset,
                                !.phaseTimer = offset % TrafficLight_getTotalCycleDuration(light)]
    IN  FindPhaseForOffset(seeded, 1, seeded.phaseTimer)

\* getPosition(), getIntersectionId()
TrafficLight_getPosition(light) == light.intersection.position
TrafficLight_getIntersectionId(light) == light.intersection.id

----------------------------------------------------------------------------
(* TrafficManager *)

greenWaveSpeed == 50
baseCycleTime == 26
Infinity == 2147483647

\* the constructed network without its waypoint and lane tables, which the
\* signal layer never reads
NetworkOutline == [RoadNetwork EXCEPT !.waypoints = <<>>, !.lanes = <<>>]

\* the keys of the trafficLights Map in insertion order: createTrafficLights
\* inserts in the order of getTrafficLightIntersections()
SignaledIds ==
    LET signaled == getTrafficLightIntersections(RoadNetwork)
    IN  [k \in 1..Len(signaled) |-> signaled[k].id]

MapOrder(lights) == SelectSeq(SignaledIds, LAMBDA id : id \in DOMAIN lights)

\* Array.prototype.sort with a numeric comparator on key(id): stable insertion
RECURSIVE InsertSorted(_, _, _, _)
InsertSorted(sorted, id, key(_), k) ==
    IF k > Len(sorted) THEN Append(sorted, id)
    ELSE IF key(id) < key(sorted[k])
         THEN SubSeq(sorted, 1, k - 1) \o <<id>> \o SubSeq(sorted, k, Len(sorted))
         ELSE InsertSorted(sorted, id, key, k + 1)

RECURSIVE SortBy(_, _, _)
SortBy(ids, key(_), k) ==
    IF k = 0 THEN <<>> ELSE InsertSorted(SortBy(ids, key, k - 1), ids[k], key, 1)

\* the forEach of applyGreenWave over one sorted group: the first light is
\* offset by the starting cumulativeOffset, each next one by the travel time more
RECURSIVE WaveOffsets(_, _, _, _, _)
WaveOffsets(lights, group, coord(_), index, cumulativeOffset) ==
    IF index > Len(group) THEN lights
    ELSE IF index = 1
         THEN WaveOffsets([lights EXCEPT ![group[1]] =
                              TrafficLight_setPhaseOffset(@, cumulativeOffset)],
                          group, coord, 2, cumulativeOffset)
         ELSE LET distance == Abs(coord(group[index]) - coord(group[index - 1]))
                  travelTime == (distance * TScale) \div (PScale * greenWaveSpeed)
                  next == cumulativeOffset + travelTime
              IN  WaveOffsets([lights EXCEPT ![group[index]] =
                                   TrafficLight_setPhaseOffset(@, next % (baseCycleTime * TScale))],
                              group, coord, index + 1, next)

\* id.includes('intersection-') && id.includes('-1')
IsMainHorizontal(id) == Includes(id, "intersection-") /\ Includes(id, "-1")

\* id.includes('intersection-1-')
IsMainVertical(id) == Includes(id, "intersection-1-")

\* applyGreenWave()
applyGreenWave(lights) ==
    LET x(id) == TrafficLight_getPosition(lights[id]).x
        z(id) == TrafficLight_getPosition(lights[id]).z
        mainH == SelectSeq(MapOrder(lights), IsMainHorizontal)
        mainHIntersections == SortBy(mainH, x, Len(mainH))
        afterH == WaveOffsets(lights, mainHIntersections, x, 1, 0)
        mainV == SelectSeq(MapOrder(lights), IsMainVertical)
        mainVIntersections == SortBy(mainV, z, Len(mainV))
    IN  WaveOffsets(afterH, mainVIntersections, z, 1, (baseCycleTime * TScale) \div 2)

\* the group applyGreenWave builds for its first pass: the entries that pass the
\* "main horizontal" filter, sorted by x
MainHGroup(lights) ==
    LET x(id) == TrafficLight_getPosition(lights[id]).x
        mainH == SelectSeq(MapOrder(lights), IsMainHorizontal)
    IN  SortBy(mainH, x, Len(mainH))

\* the group of its second pass: the entries that pass the "main vertical"
\* filter, sorted by z
MainVGroup(lights) ==
    LET z(id) == TrafficLight_getPosition(lights[id]).z
        mainV == SelectSeq(MapOrder(lights), IsMainVertical)
    IN  SortBy(mainV, z, Len(mainV))

\* createTrafficLights()
createTrafficLights(n) ==
    LET intersections == getTrafficLightIntersections(n)
        created == [id \in {intersections[k].id : k \in 1..Len(intersections)} |->
                       NewTrafficLight(
                           LET i == CHOOSE k \in 1..Len(intersections) : intersections[k].id = id
                           IN  [id |-> id, position |-> intersections[i].position])]
    IN  applyGreenWave(created)

\* update(delta) that ticks only the lights seeded with offset 0
TrafficManager_updateLeadOnly(lights, delta) ==
    [id \in DOMAIN lights |->
        IF lights[id].phaseOffset = 0 THEN TrafficLight_update(lights[id], delta)
        ELSE lights[id]]

\* TrafficManager.update(delta)
TrafficManager_update(lights, delta) ==
    [id \in DOMAIN lights |-> TrafficLight_update(lights[id], delta)]

\* getApproachDirection(vehiclePos, intersectionPos, heading)
getApproachDirection(vehiclePos, intersectionPos, heading) ==
    LET dx == intersectionPos.x - vehiclePos.x
        dz == intersectionPos.z - vehiclePos.z
    IN  IF Abs(dx) > Abs(dz)
        THEN (IF dx > 0 THEN "west" ELSE "east")
        ELSE (IF dz > 0 THEN "south" ELSE "north")

stopDistance == 8

\* getStopPosition(intersectionPos, approachDirection)
getStopPosition(intersectionPos, approachDirection) ==
    CASE approachDirection = "north" ->
            [x |-> intersectionPos.x, z |-> intersectionPos.z + stopDistance * PScale]
      [] approachDirection = "south" ->
            [x |-> intersectionPos.x, z |-> intersectionPos.z - stopDistance * PScale]
      [] approachDirection = "east" ->
            [x |-> intersectionPos.x - stopDistance * PScale, z |-> intersectionPos.z]
      [] approachDirection = "west" ->
            [x |-> intersectionPos.x + stopDistance * PScale, z |-> intersectionPos.z]
      [] OTHER -> intersectionPos

NoStopRequired == [shouldStop |-> FALSE, distance |-> Infinity, intersection |-> "null"]

\* the forEach body of shouldStop without the test for lights behind the vehicle
ShouldStopVisitIgnoreBehind(nearest, light, position, heading, checkDistance) ==
    LET lightPos == TrafficLight_getPosition(light)
        toLight == [x |-> lightPos.x - position.x, z |-> lightPos.z - position.z]
        tooFar == ~DistLeq(toLight.x, toLight.z, checkDistance)
        tooNear == DistLess(toLight.x, toLight.z, 2 * PScale)
    IN  IF tooFar \/ tooNear THEN nearest
        ELSE LET distance == Hypot(toLight.x, toLight.z)
                 direction == getApproachDirection(position, lightPos, heading)
                 lightState == TrafficLight_getState(light, direction)
             IN  IF (lightState = "red" \/ lightState = "yellow")
                    /\ distance < nearest.distance
                 THEN [ shouldStop |-> TRUE,
                        distance |-> distance,
                        intersection |-> TrafficLight_getIntersectionId(light),
                        state |-> lightState,
                        stopPosition |-> getStopPosition(lightPos, direction) ]
                 ELSE nearest

\* the body of trafficLights.forEach in shouldStop: `nearest` is
\* nearestStopRequired (NoStopRequired standing for null, with nearestDistance Infinity)
ShouldStopVisit(nearest, light, position, heading, checkDistance) ==
    LET lightPos == TrafficLight_getPosition(light)
        toLight == [x |-> lightPos.x - position.x, z |-> lightPos.z - position.z]
        tooFar == ~DistLeq(toLight.x, toLight.z, checkDistance)
        tooNear == DistLess(toLight.x, toLight.z, 2 * PScale)
    IN  IF tooFar \/ tooNear THEN nearest
        ELSE LET distance == Hypot(toLight.x, toLight.z)
                 dot == toLight.x * SinQ(heading) + toLight.z * CosQ(heading)
                 direction == getApproachDirection(position, lightPos, heading)
                 lightState == TrafficLight_getState(light, direction)
             IN  IF dot < 0 THEN nearest
                 ELSE IF (lightState = "red" \/ lightState = "yellow")
                         /\ distance < nearest.distance
                      THEN [ shouldStop |-> TRUE,
                             distance |-> distance,
                             intersection |-> TrafficLight_getIntersectionId(light),
                             state |-> lightState,
                             stopPosition |-> getStopPosition(lightPos, direction) ]
                      ELSE nearest

RECURSIVE ShouldStopFrom(_, _, _, _, _, _, _)
ShouldStopFrom(lights, order, k, nearest, position, heading, checkDistance) ==
    IF k > Len(order) THEN nearest
    ELSE ShouldStopFrom(lights, order, k + 1,
             ShouldStopVisit(nearest, lights[order[k]], position, heading, checkDistance),
             position, heading, checkDistance)

\* shouldStop(position, heading, checkDistance)
shouldStop(lights, position, heading, checkDistance) ==
    ShouldStopFrom(lights, MapOrder(lights), 1, NoStopRequired, position, heading, checkDistance)

\* the square of Math.sqrt(dx*dx + dz*dz), counted in 16/PScale of a world
\* unit; exact for offsets on the grid of 1/25 world unit
SqDist(dx, dz) == (Abs(dx) \div 16) * (Abs(dx) \div 16) + (Abs(dz) \div 16) * (Abs(dz) \div 16)

\* the forEach of isPedestrianWalkSignal: `best` is (nearestLight, minDist)
RECURSIVE WalkNearestFrom(_, _, _, _, _)
WalkNearestFrom(lights, order, k, best, crosswalkPosition) ==
    IF k > Len(order) THEN best
    ELSE LET pos == TrafficLight_getPosition(lights[order[k]])
             sq == SqDist(pos.x - crosswalkPosition.x, pos.z - crosswalkPosition.z)
         IN  WalkNearestFrom(lights, order, k + 1,
                 IF best.light = "null" \/ sq < best.sq
                 THEN [light |-> order[k], sq |-> sq] ELSE best,
                 crosswalkPosition)

\* isPedestrianWalkSignal that reads only the north-south aspect
isPedestrianWalkSignalNorthSouth(lights, crosswalkPosition) ==
    LET nearest == WalkNearestFrom(lights, MapOrder(lights), 1,
                                   [light |-> "null", sq |-> 0], crosswalkPosition)
    IN  IF nearest.light = "null" \/ nearest.sq > SqDist(20 * PScale, 0)
        THEN TRUE
        ELSE LET nearestLight == lights[nearest.light]
                 phase == nearestLight.phases[nearestLight.currentPhaseIndex + 1]
             IN  phase.ns = "red"

\* isPedestrianWalkSignal(crosswalkPosition)
isPedestrianWalkSignal(lights, crosswalkPosition) ==
    LET nearest == WalkNearestFrom(lights, MapOrder(lights), 1,
                                   [light |-> "null", sq |-> 0], crosswalkPosition)
    IN  IF nearest.light = "null" \/ nearest.sq > SqDist(20 * PScale, 0)
        THEN TRUE
        ELSE LET nearestLight == lights[nearest.light]
                 phase == nearestLight.phases[nearestLight.currentPhaseIndex + 1]
             IN  phase.ns = "red" /\ phase.ew = "red"

----------------------------------------------------------------------------
(* One traffic light driven through its public methods *)

\* tick lengths handed to TrafficLight.update, in 1/TScale s
LightDeltas == {3, 5, 10}
\* offsets handed to setPhaseOffset
LightOffsets == {0, 160, 320, 1100, 1300, 1460, 1620, 2599, 2600, 2760}

InitLight ==
    /\ trafficLights = [id \in {"a"} |-> NewTrafficLight([id |-> id, position |-> Pt(0, 0)])]
    /\ vehicles = <<>>
    /\ cars = <<>>
    /\ net = EmptyNet
    /\ pc = "light"
    /\ call = NoCall
    /\ ret = NoRet

LightUpdate ==
    /\ pc = "light"
    /\ \E delta \in LightDeltas :
          /\ trafficLights' = [id \in DOMAIN trafficLights |->
                                  TrafficLight_update(trafficLights[id], delta)]
          /\ call' = [op |-> "update", delta |-> delta]
    /\ UNCHANGED <<vehicles, cars, net, pc, ret>>

LightSetPhaseOffset ==
    /\ pc = "light"
    /\ \E id \in DOMAIN trafficLights, offset \in LightOffsets :
          /\ trafficLights' = [trafficLights EXCEPT
                                  ![id] = TrafficLight_setPhaseOffset(@, offset)]
          /\ call' = [op |-> "setPhaseOffset", offset |-> offset]
    /\ UNCHANGED <<vehicles, cars, net, pc, ret>>

NextLight == LightUpdate \/ LightSetPhaseOffset

SpecLight == InitLight /\ [][NextLight]_vars

\* C1: for every TrafficLight, after any sequence of update and setPhaseOffset
\* calls, north/south and east/west are never both green, and whenever one pair
\* shows green or yellow the other pair shows red.
C1_NeverBothGreen ==
    \A id \in DOMAIN trafficLights :
        LET light == trafficLights[id]
            ns == TrafficLight_getState(light, "north")
            ew == TrafficLight_getState(light, "east")
        IN  /\ TrafficLight_getState(light, "south") = ns
            /\ TrafficLight_getState(light, "west") = ew
            /\ ~(ns = "green" /\ ew = "green")
            /\ (ns \in {"green", "yellow"} => ew = "red")
            /\ (ew \in {"green", "yellow"} => ns = "red")

\* a light that was offset and then ticked into its east-west green
C1_Witness ==
    /\ pc = "light"
    /\ call.op = "update"
    /\ \E id \in DOMAIN trafficLights :
          /\ trafficLights[id].phaseOffset > 0
          /\ TrafficLight_getState(trafficLights[id], "east") = "green"
          /\ trafficLights[id].phaseTimer > 0

\* C11: a step of update(dt) moves the phase index from i to (i + 1) mod 6 and
\* sets phaseTimer to 0 exactly when phaseTimer + dt reaches the duration of the
\* current phase, and otherwise keeps the index and adds dt; the index stays in
\* 0..5 and afterwards 0 <= phaseTimer < duration of the current phase.
C11_UpdateStepsOnePhase ==
    [][ call'.op = "update" =>
          \A id \in DOMAIN trafficLights :
              LET old == trafficLights[id]
                  new == trafficLights'[id]
                  timer == old.phaseTimer + call'.delta
                  overflow == timer >= old.phases[old.currentPhaseIndex + 1].duration
              IN  /\ overflow => /\ new.currentPhaseIndex = (old.currentPhaseIndex + 1) % 6
                                 /\ new.phaseTimer = 0
                  /\ ~overflow => /\ new.currentPhaseIndex = old.currentPhaseIndex
                                  /\ new.phaseTimer = timer
                  /\ new.currentPhaseIndex \in 0..5
                  /\ new.phaseTimer >= 0
                  /\ new.phaseTimer < new.phases[new.currentPhaseIndex + 1].duration
                  /\ new.phases = old.phases ]_vars

\* an update has just wrapped the light from ALL_RED_2 round to NS_GREEN
C11_Witness ==
    /\ call.op = "update"
    /\ \E id \in DOMAIN trafficLights :
          /\ trafficLights[id].currentPhaseIndex = 0
          /\ trafficLights[id].phaseTimer = 0

----------------------------------------------------------------------------
(* Offset against replay: one fresh light is offset, another fresh light is
   ticked from t = 0 with a fixed tick length *)

ReplayDeltas == {1, 3, 5, 10}
ReplayOffsets == {0, 150, 160, 1020, 1200, 1300, 1305, 2595, 2760, 3900}

InitReplay ==
    /\ trafficLights = [id \in {"offset", "replay"} |->
                            NewTrafficLight([id |-> id, position |-> Pt(0, 0)])]
    /\ vehicles = <<>>
    /\ cars = <<>>
    /\ net = EmptyNet
    /\ pc = "fresh"
    /\ \E offset \in ReplayOffsets, delta \in ReplayDeltas :
          call = [op |-> "replay", offset |-> offset, delta |-> delta, elapsed |-> 0]
    /\ ret = NoRet

\* the time the replay has to cover: offset mod cycle length
ReplayTarget == call.offset % TrafficLight_getTotalCycleDuration(trafficLights["replay"])

ReplaySetPhaseOffset ==
    /\ pc = "fresh"
    /\ trafficLights' = [trafficLights EXCEPT
                            !["offset"] = TrafficLight_setPhaseOffset(@, call.offset)]
    /\ pc' = "replaying"
    /\ UNCHANGED <<vehicles, cars, net, call, ret>>

ReplayUpdate ==
    /\ pc = "replaying"
    /\ call.elapsed + call.delta <= ReplayTarget
    /\ trafficLights' = [trafficLights EXCEPT
                            !["replay"] = TrafficLight_update(@, call.delta)]
    /\ call' = [call EXCEPT !.elapsed = @ + call.delta]
    /\ UNCHANGED <<vehicles, cars, net, pc, ret>>

NextReplay == ReplaySetPhaseOffset \/ ReplayUpdate

SpecReplay == InitReplay /\ [][NextReplay]_vars

ReplayDone == pc = "replaying" /\ call.elapsed = ReplayTarget

SamePhasePosition ==
    /\ trafficLights["offset"].currentPhaseIndex = trafficLights["replay"].currentPhaseIndex
    /\ trafficLights["offset"].phaseTimer = trafficLights["replay"].phaseTimer

\* every phase duration is a whole number of ticks of length delta
DeltaDividesPhases(light, delta) ==
    \A i \in 1..Len(light.phases) : light.phases[i].duration % delta = 0

----------------------------------------------------------------------------
(* Two lights of a green wave: both are seeded by setPhaseOffset and then ticked
   together by TrafficManager.update *)

\* the tick lengths of a run, in 1/TScale s, handed to update in turn and again
\* from the first: App.animate caps a frame at 0.1 s
WaveTicks == {<<3>>, <<5>>, <<10>>, <<5, 10>>}
\* the offsets the two lights are seeded with: neighbours of the horizontal and
\* of the vertical wave (80 units apart at speed 50), and one of either wave
WaveSeeds == {<<0, 160>>, <<160, 320>>, <<1300, 1460>>, <<0, 1300>>}
\* ticks are applied while the accumulated time is below MaxWaveTime (1/TScale s)
MaxWaveTime == 5400

InitWave ==
    /\ trafficLights = [id \in {"first", "second"} |->
                            NewTrafficLight([id |-> id, position |-> Pt(0, 0)])]
    /\ vehicles = <<>>
    /\ cars = <<>>
    /\ net = EmptyNet
    /\ pc = "fresh"
    /\ \E ticks \in WaveTicks, offsets \in WaveSeeds :
          call = [ op |-> "wave", ticks |-> ticks, offsets |-> offsets, step |-> 0,
                   elapsed |-> 0,
                   entered |-> [id \in {"first", "second"} |-> -1],
                   period |-> [id \in {"first", "second"} |-> -1] ]
    /\ ret = NoRet

\* applyGreenWave seeds the two lights
WaveSetPhaseOffset ==
    /\ pc = "fresh"
    /\ trafficLights' =
          [trafficLights EXCEPT
              !["first"] = TrafficLight_setPhaseOffset(@, call.offsets[1]),
              !["second"] = TrafficLight_setPhaseOffset(@, call.offsets[2])]
    /\ pc' = "waving"
    /\ UNCHANGED <<vehicles, cars, net, call, ret>>

\* one TrafficManager.update(dt).  call keeps the accumulated time, for each
\* light the accumulated time at which it last entered phase 0, and the time
\* between its last two entries (-1 while there is none)
WaveUpdate ==
    /\ pc = "waving"
    /\ call.elapsed < MaxWaveTime
    /\ LET dt == call.ticks[(call.step % Len(call.ticks)) + 1]
           now == call.elapsed + dt
           enters(id) == /\ trafficLights[id].currentPhaseIndex # 0
                         /\ trafficLights'[id].currentPhaseIndex = 0
       IN  /\ trafficLights' = TrafficManager_update(trafficLights, dt)
           /\ call' = [call EXCEPT
                 !.step = @ + 1,
                 !.elapsed = now,
                 !.entered = [id \in DOMAIN trafficLights |->
                                 IF enters(id) THEN now ELSE call.entered[id]],
                 !.period = [id \in DOMAIN trafficLights |->
                                IF enters(id) /\ call.entered[id] >= 0
                                THEN now - call.entered[id] ELSE call.period[id]]]
    /\ UNCHANGED <<vehicles, cars, net, pc, ret>>

NextWave == WaveSetPhaseOffset \/ WaveUpdate

SpecWave == InitWave /\ [][NextWave]_vars

----------------------------------------------------------------------------
(* The road network after construction, and its queries *)

\* the values a waypoint query yields beside a waypoint: null, the undefined of
\* Map.get on a missing key, and the TypeError thrown by reading a property of
\* undefined
null == [id |-> "null"]
undefined == [id |-> "undefined"]
TypeError == [id |-> "TypeError"]

\* array.indexOf(x), counted from 0; -1 when x is not an element
IndexOf(seq, x) ==
    IF \E k \in 1..Len(seq) : seq[k] = x
    THEN (CHOOSE k \in 1..Len(seq) : seq[k] = x /\ \A j \in 1..(k - 1) : seq[j] # x) - 1
    ELSE -1

\* getWaypoint(id): this.waypoints.get(id)
getWaypoint(n, id) == IF id \in DOMAIN n.waypoints THEN n.waypoints[id] ELSE undefined

\* this.lanes.find(l => l.id === `${wp.segmentId}-lane${wp.lane}`), as a sequence
\* holding the lane found, empty when there is none
LaneOfWaypoint(n, wp) ==
    LET found == SelectSeq(n.lanes,
                     LAMBDA l : l.id = wp.segmentId \o "-lane" \o ToString(wp.lane))
    IN  IF found = <<>> THEN <<>> ELSE <<found[1]>>

\* the distance under which an intersection or a segment end counts as near
connectRadius == 15 * PScale

\* this.intersections.find(inter => dist < 15), as a sequence of at most one
NearbyIntersection(n, currentWp) ==
    LET near == SelectSeq(n.intersections,
                    LAMBDA inter : DistLess(inter.position.x - currentWp.position.x,
                                            inter.position.z - currentWp.position.z,
                                            connectRadius))
    IN  IF near = <<>> THEN <<>> ELSE <<near[1]>>

\* the filter of findConnectingWaypoint: lanes of another segment that starts or
\* ends within 15 of the intersection
ConnectedLanes(n, currentWp, inter) ==
    SelectSeq(n.lanes, LAMBDA l :
        /\ l.segmentId # currentWp.segmentId
        /\ \E k \in 1..Len(n.segments) :
             /\ n.segments[k].id = l.segmentId
             /\ \A j \in 1..(k - 1) : n.segments[j].id # l.segmentId
             /\ \/ DistLess(inter.position.x - n.segments[k].start.x,
                            inter.position.z - n.segments[k].start.z, connectRadius)
                \/ DistLess(inter.position.x - n.segments[k].end.x,
                            inter.position.z - n.segments[k].end.z, connectRadius))

\* findConnectingWaypoint(currentWp, direction); random is the value of
\* Math.random() in 1/10000.  Reading currentWp.position of a missing waypoint
\* throws.
findConnectingWaypoint(n, currentWp, direction, random) ==
    IF currentWp = undefined \/ currentWp = null THEN TypeError
    ELSE
    LET nearbyIntersection == NearbyIntersection(n, currentWp)
    IN  IF nearbyIntersection = <<>>
        THEN LET lane == LaneOfWaypoint(n, currentWp)
             IN  IF lane # <<>> /\ Len(lane[1].waypoints) > 0
                 THEN LET loopIndex == IF direction > 0 THEN 0 ELSE Len(lane[1].waypoints) - 1
                      IN  getWaypoint(n, lane[1].waypoints[loopIndex + 1])
                 ELSE null
        ELSE LET connectedLanes == ConnectedLanes(n, currentWp, nearbyIntersection[1])
             IN  IF Len(connectedLanes) = 0 THEN null
                 ELSE LET nextLane == connectedLanes[1 + (random * Len(connectedLanes)) \div 10000]
                          wpId == IF nextLane.direction > 0 THEN nextLane.waypoints[1]
                                  ELSE nextLane.waypoints[Len(nextLane.waypoints)]
                      IN  getWaypoint(n, wpId)

\* CityRoadNetwork.getNextWaypoint(currentWpId, direction)
getNextWaypoint(n, currentWpId, direction, random) ==
    LET wp == getWaypoint(n, currentWpId)
    IN  IF wp = undefined THEN null
        ELSE LET lane == LaneOfWaypoint(n, wp)
             IN  IF lane = <<>> THEN null
                 ELSE LET currentIndex == IndexOf(lane[1].waypoints, currentWpId)
                          nextIndex == currentIndex + direction
                      IN  IF nextIndex < 0 \/ nextIndex >= Len(lane[1].waypoints)
                          THEN findConnectingWaypoint(n, wp, direction, random)
                          ELSE getWaypoint(n, lane[1].waypoints[nextIndex + 1])

\* NPCVehicle.getNextWaypoint() of a vehicle whose currentLane is lane number
\* currentLane of the network (0 for null) and whose currentWaypointId is given
\* ("null" for null)
NPCVehicle_getNextWaypoint(n, currentLane, currentWaypointId, random) ==
    IF currentLane = 0 \/ currentWaypointId = "null" \/ currentWaypointId = "" THEN null
    ELSE LET lane == n.lanes[currentLane]
             currentIndex == IndexOf(lane.waypoints, currentWaypointId)
             direction == IF lane.direction # 0 THEN lane.direction ELSE 1
             nextIndex == currentIndex + direction
         IN  IF nextIndex < 0 \/ nextIndex >= Len(lane.waypoints)
             THEN LET currentWp == getWaypoint(n, currentWaypointId)
                  IN  findConnectingWaypoint(n, currentWp, direction, random)
             ELSE getWaypoint(n, lane.waypoints[nextIndex + 1])


InitGraph ==
    /\ trafficLights = <<>>
    /\ vehicles = <<>>
    /\ cars = <<>>
    /\ net = RoadNetwork
    /\ pc = "built"
    /\ call = NoCall
    /\ ret = NoRet

\* getRandomSpawnPoint(): both Math.random() draws are free choices
GetRandomSpawnPoint ==
    /\ pc = "built"
    /\ LET drivableLanes == SelectSeq(net.lanes, LAMBDA l :
                                StartsWith(l.segmentId, "main") \/ StartsWith(l.segmentId, "highway"))
       IN  \E li \in 1..Len(drivableLanes) :
             LET lane == drivableLanes[li]
             IN  \E wi \in 1..(Len(lane.waypoints) - 1) :
                   /\ call' = [op |-> "getRandomSpawnPoint"]
                   /\ pc' = "returned"
                   /\ ret' = [ kind |-> "spawn",
                               position |-> net.waypoints[lane.waypoints[wi]].position,
                               lane |-> lane.id,
                               waypointIndex |-> wi - 1,
                               direction |-> lane.direction ]
    /\ UNCHANGED <<trafficLights, vehicles, cars, net>>

\* the values of Math.random() given to a waypoint query, in 1/10000
ConnectDraws == {0, 5000}

\* getNextWaypoint(currentWpId, direction) asked for any waypoint id of the
\* network, or for an id it does not hold
GetNextWaypoint ==
    /\ pc = "built"
    /\ \E currentWpId \in DOMAIN net.waypoints \cup {"unknown"} :
       \E direction \in {-1, 1} :
       \E random \in ConnectDraws :
          /\ call' = [op |-> "getNextWaypoint", currentWpId |-> currentWpId,
                      direction |-> direction, random |-> random]
          /\ ret' = [ kind |-> "waypoint",
                      value |-> getNextWaypoint(net, currentWpId, direction, random) ]
    /\ pc' = "returned"
    /\ UNCHANGED <<trafficLights, vehicles, cars, net>>

\* NPCVehicle.getNextWaypoint() of a vehicle bound to any lane (or to none) whose
\* currentWaypointId is null, one of the lane's waypoints, or an id the network
\* does not hold
VehicleGetNextWaypoint ==
    /\ pc = "built"
    /\ \E currentLane \in 0..Len(net.lanes) :
       \E currentWaypointId \in
             (IF currentLane = 0 THEN {}
              ELSE {net.lanes[currentLane].waypoints[k] :
                        k \in 1..Len(net.lanes[currentLane].waypoints)})
             \cup {"null", "unknown"} :
       \E random \in ConnectDraws :
          /\ call' = [op |-> "NPCVehicle.getNextWaypoint", currentLane |-> currentLane,
                      currentWaypointId |-> currentWaypointId, random |-> random]
          /\ ret' = [ kind |-> "waypoint",
                      value |-> NPCVehicle_getNextWaypoint(net, currentLane,
                                    currentWaypointId, random) ]
    /\ pc' = "returned"
    /\ UNCHANGED <<trafficLights, vehicles, cars, net>>

\* the caller takes the returned value and is ready for the next call
GraphReturn ==
    /\ pc = "returned"
    /\ pc' = "built"
    /\ call' = NoCall
    /\ ret' = NoRet
    /\ UNCHANGED <<trafficLights, vehicles, cars, net>>

NextGraph == GetRandomSpawnPoint \/ GraphReturn

SpecGraph == InitGraph /\ [][NextGraph]_vars

\* the waypoint queries alone, on the network as built
NextWaypoints == GetNextWaypoint \/ VehicleGetNextWaypoint \/ GraphReturn

SpecWaypoints == InitGraph /\ [][NextWaypoints]_vars

SegmentById(id) == CHOOSE k \in 1..Len(net.segments) : net.segments[k].id = id
LanesOf(segmentId) == SelectSeq(net.lanes, LAMBDA l : l.segmentId = segmentId)

RECURSIVE TotalLaneLength(_, _)
TotalLaneLength(lanes, k) ==
    IF k > Len(lanes) THEN 0 ELSE Len(lanes[k].waypoints) + TotalLaneLength(lanes, k + 1)

\* C7: the 4-lane segment main-h1 from (-120,0) to (120,0), cut at spacing 8,
\* has ceil(240/8)+1 = 31 longitudinal positions per lane and 124 waypoints in
\* all, and each lane's list holds that lane's 31 waypoints in index order.
C7_MainRoadWaypointCount ==
    LET segment == net.segments[SegmentById("main-h1")]
        lanes == LanesOf("main-h1")
    IN  /\ segment.start = Pt(-120, 0) /\ segment.end = Pt(120, 0)
        /\ segment.lanes = 4
        /\ Len(lanes) = 4
        /\ CeilDiv(240, 8) + 1 = 31
        /\ \A l \in 1..4 :
             /\ lanes[l].laneIndex = l - 1
             /\ Len(lanes[l].waypoints) = 31
             /\ \A k \in 1..Len(lanes[l].waypoints) :
                  LET id == "main-h1-wp" \o ToString(k - 1) \o "-lane" \o ToString(l - 1)
                  IN  /\ lanes[l].waypoints[k] = id
                      /\ id \in DOMAIN net.waypoints
                      /\ net.waypoints[id].lane = l - 1
                      /\ net.waypoints[id].segmentId = "main-h1"
        /\ Cardinality({id \in DOMAIN net.waypoints :
                           net.waypoints[id].segmentId = "main-h1"}) = 124

\* a spawn point drawn on the last but one position of a lane of main-h1
C7_Witness ==
    /\ pc = "returned"
    /\ ret.kind = "spawn"
    /\ ret.lane = "main-h1-lane2"
    /\ ret.waypointIndex = 29

\* C8: after construction every waypoint id is unique (the map has as many
\* entries as waypoints were generated and every id of a lane's list resolves
\* in it), every lane's list is non-empty, and every segment has an even lane
\* count >= 2 whose lower half of lane indices runs +1 and upper half -1.
C8_GraphWellFormed ==
    /\ Len(net.segments) > 0
    /\ TotalLaneLength(net.lanes, 1) = Cardinality(DOMAIN net.waypoints)
    /\ UNION {{net.lanes[l].waypoints[k] : k \in 1..Len(net.lanes[l].waypoints)} :
                 l \in 1..Len(net.lanes)} = DOMAIN net.waypoints
    /\ \A id \in DOMAIN net.waypoints : net.waypoints[id].id = id
    /\ \A l \in 1..Len(net.lanes) : Len(net.lanes[l].waypoints) > 0
    /\ \A s \in 1..Len(net.segments) :
         LET segment == net.segments[s]
             lanes == LanesOf(segment.id)
         IN  /\ segment.type \in {"main", "side", "highway", "connector"}
             /\ segment.lanes >= 2
             /\ segment.lanes % 2 = 0
             /\ Len(lanes) = segment.lanes
             /\ \A l \in 1..Len(lanes) :
                  /\ lanes[l].laneIndex = l - 1
                  /\ lanes[l].direction = IF l <= segment.lanes \div 2 THEN 1 ELSE -1
                  /\ \A k \in 1..Len(lanes[l].waypoints) :
                       net.waypoints[lanes[l].waypoints[k]].direction = lanes[l].direction

\* all four segment types are built, and a spawn point on a backward highway lane was drawn
C8_Witness ==
    /\ pc = "returned"
    /\ {net.segments[s].type : s \in 1..Len(net.segments)}
          = {"main", "side", "highway", "connector"}
    /\ ret.kind = "spawn"
    /\ ret.lane = "highway-15-lane3"
    /\ ret.direction = -1

----------------------------------------------------------------------------
(* The signal layer: TrafficManager over the constructed network *)

\* tick length of TrafficManager.update, in 1/TScale s: the frame delta at its
\* cap of 0.1 s (ticks of mixed lengths make every light drift on its own, see
\* TrafficLight_update, and the joint state of 21 lights no longer fits)
TrafficDeltas == {10}

\* where the stop queries are asked from: on the four approach axes of these
\* lights, at these distances (world units) from the intersection center
StopQueryLights == {"intersection-1-1", "cross-v1-sh0"}
StopQueryDistances == {1, 8, 20}
StopCheckDistances == {20, 25}

\* the vehicle is on this side of the light ...
Sides == {"west", "east", "south", "north"}
SideOffset(side, d) ==
    CASE side = "west"  -> [x |-> -d, z |-> 0]
      [] side = "east"  -> [x |-> d,  z |-> 0]
      [] side = "south" -> [x |-> 0,  z |-> -d]
      [] side = "north" -> [x |-> 0,  z |-> d]
\* ... and this heading points it straight at the light
HeadingToward(side) ==
    CASE side = "west" -> Quarter [] side = "east" -> 3 * Quarter
      [] side = "south" -> 0 [] side = "north" -> 2 * Quarter

InitTraffic ==
    /\ trafficLights = <<>>
    /\ vehicles = <<>>
    /\ cars = <<>>
    /\ net = NetworkOutline
    /\ pc = "constructed"
    /\ call = NoCall
    /\ ret = NoRet

CreateTrafficLights ==
    /\ pc = "constructed"
    /\ trafficLights' = createTrafficLights(net)
    /\ pc' = "running"
    /\ call' = [op |-> "createTrafficLights"]
    /\ UNCHANGED <<vehicles, cars, net, ret>>

TrafficUpdate ==
    /\ pc = "running"
    /\ \E delta \in TrafficDeltas :
          /\ trafficLights' = TrafficManager_update(trafficLights, delta)
          /\ call' = [op |-> "update"]
    /\ UNCHANGED <<vehicles, cars, net, pc, ret>>

ShouldStopQuery ==
    /\ pc = "running"
    /\ \E id \in StopQueryLights, side \in Sides, d \in StopQueryDistances,
          heading \in Headings, checkDistance \in StopCheckDistances :
          LET center == TrafficLight_getPosition(trafficLights[id])
              off == SideOffset(side, d * PScale)
              position == [x |-> center.x + off.x, z |-> center.z + off.z]
          IN  /\ call' = [ op |-> "shouldStop", light |-> id, side |-> side,
                           offset |-> d, position |-> position, heading |-> heading,
                           checkDistance |-> checkDistance ]
              /\ ret' = shouldStop(trafficLights, position, heading, checkDistance * PScale)
    /\ pc' = "returned"
    /\ UNCHANGED <<trafficLights, vehicles, cars, net>>

TrafficReturn ==
    /\ pc = "returned"
    /\ pc' = "running"
    /\ call' = [op |-> "update"]
    /\ ret' = NoRet
    /\ UNCHANGED <<trafficLights, vehicles, cars, net>>

\* crosswalk positions handed to isPedestrianWalkSignal, in world units
WalkPositions ==
    { [x |-> 5, z |-> 5], [x |-> 12, z |-> 16], [x |-> 13, z |-> 16],
      [x |-> 0, z |-> -20], [x |-> 80, z |-> -75], [x |-> 100, z |-> 21] }

\* isPedestrianWalkSignal is asked before or after the lights are created
WalkQuery ==
    /\ pc \in {"constructed", "running"}
    /\ \E p \in WalkPositions :
          /\ call' = [op |-> "isPedestrianWalkSignal", position |-> Pt(p.x, p.z), from |-> pc]
          /\ ret' = [kind |-> "walk",
                     walk |-> isPedestrianWalkSignal(trafficLights, Pt(p.x, p.z))]
    /\ pc' = "walkReturned"
    /\ UNCHANGED <<trafficLights, vehicles, cars, net>>

WalkReturn ==
    /\ pc = "walkReturned"
    /\ pc' = call.from
    /\ call' = IF call.from = "constructed" THEN NoCall ELSE [op |-> "update"]
    /\ ret' = NoRet
    /\ UNCHANGED <<trafficLights, vehicles, cars, net>>

NextTraffic ==
    CreateTrafficLights \/ TrafficUpdate \/ ShouldStopQuery \/ TrafficReturn
        \/ WalkQuery \/ WalkReturn

SpecTraffic == InitTraffic /\ [][NextTraffic]_vars

LightsCreated == pc \in {"running", "returned"}

\* the light standing at (x, z), in world units
LightAt(x, z) ==
    CHOOSE id \in DOMAIN trafficLights : TrafficLight_getPosition(trafficLights[id]) = Pt(x, z)

\* the offsets of three lights grow by spacing / greenWaveSpeed = 80/50 s each
WaveOf(a, b, c) ==
    /\ trafficLights[b].phaseOffset - trafficLights[a].phaseOffset = (80 * TScale) \div 50
    /\ trafficLights[c].phaseOffset - trafficLights[b].phaseOffset = (80 * TScale) \div 50

\* C3: after createTrafficLights, along every main row z in {-80,0,80} and every
\* main column x in {-80,0,80} the offsets applied to the three lights increase
\* with the coordinate, each step being 80/50 s.
C3_GreenWaveMonotone ==
    LightsCreated =>
        \A c \in {-80, 0, 80} :
            /\ WaveOf(LightAt(-80, c), LightAt(0, c), LightAt(80, c))
            /\ WaveOf(LightAt(c, -80), LightAt(c, 0), LightAt(c, 80))

\* what holds of the code: only the middle column x = 0 carries a wave
C3_MiddleColumnOnly ==
    LightsCreated =>
        /\ WaveOf(LightAt(0, -80), LightAt(0, 0), LightAt(0, 80))
        /\ \A c \in {-80, 0, 80} : ~WaveOf(LightAt(-80, c), LightAt(0, c), LightAt(80, c))
        /\ \A c \in {-80, 80} : ~WaveOf(LightAt(c, -80), LightAt(c, 0), LightAt(c, 80))

\* the query came from a vehicle d world units from a light's center, on an
\* approach axis, heading straight at the light, whose aspect for that approach is red
StopQueryAtRed(d) ==
    /\ pc = "returned"
    /\ call.op = "shouldStop"
    /\ call.offset = d
    /\ call.heading = HeadingToward(call.side)
    /\ TrafficLight_getState(trafficLights[call.light], call.side) = "red"

\* C4: from each of the four sides, a vehicle 8 units from the center heading at
\* a red light is told shouldStop = true, distance = 8, and a stopPosition 8
\* units before the center on its own side, that is, its own position.
C4_StopQueryCorrect ==
    StopQueryAtRed(8) =>
        /\ ret.shouldStop
        /\ ret.intersection = call.light
        /\ ret.distance = 8 * PScale
        /\ ret.stopPosition = call.position

\* what the code does there: shouldStop and distance are as claimed on all four
\* sides, the stop position is the vehicle's own from south and north, and the
\* point 8 units beyond the center from west and east
C4_CodeBehaviour ==
    StopQueryAtRed(8) =>
        LET center == TrafficLight_getPosition(trafficLights[call.light])
        IN  /\ ret.shouldStop
            /\ ret.intersection = call.light
            /\ ret.distance = 8 * PScale
            /\ call.side \in {"south", "north"} => ret.stopPosition = call.position
            /\ call.side \in {"west", "east"} =>
                 /\ ret.stopPosition.z = call.position.z
                 /\ ret.stopPosition.x - center.x = center.x - call.position.x

\* C9: every TrafficLight has the six phases NS green, NS yellow, all-red, EW
\* green, EW yellow, all-red lasting 10, 2, 1, 10, 2, 1 s, so that
\* getTotalCycleDuration() is 26 s in every state and equals baseCycleTime.
C9_SixPhaseCycle ==
    \A id \in DOMAIN trafficLights :
        LET phases == trafficLights[id].phases
        IN  /\ Len(phases) = 6
            /\ [k \in 1..6 |-> <<phases[k].ns, phases[k].ew>>] =
                   << <<"green", "red">>, <<"yellow", "red">>, <<"red", "red">>,
                      <<"red", "green">>, <<"red", "yellow">>, <<"red", "red">> >>
            /\ [k \in 1..6 |-> phases[k].duration] =
                   <<10 * TScale, 2 * TScale, 1 * TScale, 10 * TScale, 2 * TScale, 1 * TScale>>
            /\ TrafficLight_getTotalCycleDuration(trafficLights[id]) = 26 * TScale
            /\ TrafficLight_getTotalCycleDuration(trafficLights[id]) = baseCycleTime * TScale

\* the lights exist, have been ticked, and one of them is in its last phase
C9_Witness ==
    /\ pc = "running"
    /\ call.op = "update"
    /\ \E id \in DOMAIN trafficLights :
          /\ trafficLights[id].currentPhaseIndex = 5
          /\ trafficLights[id].phaseTimer > 0

----------------------------------------------------------------------------
(* NPCManager, car layer: createCars and update(delta) with the crude       *)
(* collision response.  A car is its position and its userData; the mesh    *)
(* and its rotation.y are rendering only.                                   *)

\* carCollisionRadius 2.5, in 1/PScale units
carCollisionRadius == 1000

\* userData.speed of a straight-road car is counted in 1/CScale; the speed of
\* a car on the circular road in 1/AngleDen turns per second
CScale == 100

\* one outcome of the Math.random() draws of createCars
CircleSpeedDraws == {60, 120}
CircleDirectionDraws ==
    { <<1, 1, 1, 1, 1, 1>>, <<1, -1, 1, -1, 1, -1>>, <<-1, -1, 1, 1, -1, 1>>, <<1, 1, -1, -1, -1, 1>> }
AxisXSpeedDraws == {30, 45}
AxisZSpeedDraws == {25, 40}

CircleCar(i, speed, direction) ==
    LET angle == (i * AngleDen) \div 6
        radius == 40 * PScale
    IN  [ position |-> OnCircle(radius, angle), angle |-> angle, radius |-> radius,
          axis |-> "none", speed |-> speed, direction |-> direction, min |-> 0, max |-> 0 ]

AxisCar(i, speed) ==
    IF i < 2
    THEN [ position |-> Pt(-30 + i * 60, 0), angle |-> 0, radius |-> 0,
           axis |-> "x", speed |-> speed, direction |-> IF i = 0 THEN 1 ELSE -1,
           min |-> -40 * PScale, max |-> 40 * PScale ]
    ELSE [ position |-> Pt(0, -20 + (i - 2) * 40), angle |-> 0, radius |-> 0,
           axis |-> "z", speed |-> speed, direction |-> IF i = 2 THEN 1 ELSE -1,
           min |-> -35 * PScale, max |-> 35 * PScale ]

\* createCars(): six cars on the circular road, then four on the straight roads
createCars(circleSpeed, circleDirection, axisSpeed) ==
    [i \in 1..6 |-> CircleCar(i - 1, circleSpeed[i], circleDirection[i])]
    \o [i \in 1..4 |-> AxisCar(i - 1, axisSpeed[i])]

\* checkCarCollision(car1, car2)
checkCarCollision(car1, car2) ==
    DistLess(car1.position.x - car2.position.x, car1.position.z - car2.position.z,
             carCollisionRadius)

\* the movement of one car in update: the circular-road or the straight-road branch
MoveCar(car, delta) ==
    IF car.radius # 0
    THEN LET angle == car.angle + (car.speed * delta * car.direction) \div TScale
         IN  [car EXCEPT !.angle = angle, !.position = OnCircle(car.radius, angle)]
    ELSE IF car.axis = "none" THEN car
    ELSE LET step == (car.speed * car.direction * delta * 20 * PScale) \div (CScale * TScale)
             moved == IF car.axis = "x"
                      THEN [car EXCEPT !.position.x = @ + step]
                      ELSE [car EXCEPT !.position.z = @ + step]
             along == IF car.axis = "x" THEN moved.position.x ELSE moved.position.z
         IN  IF along > car.max \/ along < car.min
             THEN [moved EXCEPT !.direction = -@]
             ELSE moved

\* the inner loop of update: car `index` against the cars j behind it in the
\* list.  st.cars is the list, st.hits the pairs found colliding so far.
RECURSIVE CollideFrom(_, _, _, _)
CollideFrom(st, index, j, prev) ==
    IF j > Len(st.cars) THEN st
    ELSE IF checkCarCollision(st.cars[index], st.cars[j])
         THEN CollideFrom(
                 [ cars |-> [st.cars EXCEPT ![index].direction = -@,
                                            ![index].position = prev,
                                            ![j].direction = -@],
                   hits |-> st.hits \cup {<<index, j>>} ],
                 index, j + 1, prev)
         ELSE CollideFrom(st, index, j + 1, prev)

\* this.cars.forEach((car, index) => ...)
RECURSIVE UpdateCarsFrom(_, _, _)
UpdateCarsFrom(st, index, delta) ==
    IF index > Len(st.cars) THEN st
    ELSE LET prev == st.cars[index].position
             moved == [st EXCEPT !.cars[index] = MoveCar(@, delta)]
         IN  UpdateCarsFrom(CollideFrom(moved, index, index + 1, prev), index + 1, delta)

\* update(delta), the part over this.cars
NPCManager_updateCars(list, delta) == UpdateCarsFrom([cars |-> list, hits |-> {}], 1, delta)

----------------------------------------------------------------------------
(* The car layer from create() on, one update per frame *)

\* the frame length of a run, in 1/TScale s: every frame of a run is this long
CarDeltas == {5, 10}
\* frames are run while the time since create() is below MaxCarTime (1/TScale s)
MaxCarTime == 500

InitCars ==
    /\ trafficLights = <<>>
    /\ vehicles = <<>>
    /\ cars = <<>>
    /\ net = EmptyNet
    /\ pc = "constructed"
    /\ call = NoCall
    /\ ret = NoRet

CreateCars ==
    /\ pc = "constructed"
    /\ \E circleSpeed \in CircleSpeedDraws, circleDirection \in CircleDirectionDraws,
          xSpeed \in [1..2 -> AxisXSpeedDraws], zSpeed \in AxisZSpeedDraws :
          cars' = createCars([i \in 1..6 |-> circleSpeed], circleDirection,
                             xSpeed \o <<zSpeed, zSpeed>>)
    /\ pc' = "running"
    /\ \E delta \in CarDeltas : call' = [op |-> "create", delta |-> delta, time |-> 0]
    /\ UNCHANGED <<trafficLights, vehicles, net, ret>>

UpdateCars ==
    /\ pc = "running"
    /\ call.time < MaxCarTime
    /\ LET done == NPCManager_updateCars(cars, call.delta)
       IN  /\ cars' = done.cars
           /\ call' = [call EXCEPT !.op = "update", !.time = @ + call.delta]
           /\ ret' = [kind |-> "update", before |-> cars, hits |-> done.hits]
    /\ UNCHANGED <<trafficLights, vehicles, net, pc>>

NextCars == CreateCars \/ UpdateCars

SpecCars == InitCars /\ [][NextCars]_vars

\* C6: after an update, both cars of every pair found within carCollisionRadius
\* during that update have the opposite of the direction they had before it
\* and stand where they stood before it.
C6_CollisionResponse ==
    ret.kind = "update" =>
        \A pair \in ret.hits : \A k \in {pair[1], pair[2]} :
            /\ cars[k].direction = -ret.before[k].direction
            /\ cars[k].position = ret.before[k].position

\* what the code does for a pair that is the only collision of its two cars in
\* the update: both directions are flipped (after the flip a boundary may have
\* given), the car earlier in the list stands where it stood
C6_CodeBehaviour ==
    ret.kind = "update" =>
        \A pair \in ret.hits :
            (\A other \in ret.hits : other # pair =>
                 {other[1], other[2]} \cap {pair[1], pair[2]} = {})
            => cars[pair[1]].position = ret.before[pair[1]].position

----------------------------------------------------------------------------
(* NPCVehicle.  A vehicle is built either without a road network           *)
(* (roadNetwork null, the default of NPCManager's constructor) or with the  *)
(* CityRoadNetwork the App hands to NPCManager; a vehicle that holds it     *)
(* reads the one network object, which is the variable net.                 *)
(* currentLane and currentSegment are places in the network's lanes and     *)
(* segments arrays, 0 for null.  Headings are whole 1/AngleDen turns and    *)
(* Math.atan2, Math.sin and Math.cos are taken to that resolution.  Meshes, *)
(* wheels, brake lights and turn-signal blinking are rendering only.        *)

maxSpeed == 50
acceleration == 15
brakeForce == 25
followDistance == 8
safeDistance == 5
cityBound == 135

turnSpeed == 2
\* 0.3 rad, the heading difference beyond which a turn signal is set, in 1/AngleDen turns
TurnSignalAngle == 80

\* this.roadNetwork.getLanes(), .waypoints and .getSegments()
CityLanes == net.lanes
CityWaypoints == net.waypoints
CitySegments == net.segments

\* new NPCVehicle(scene, roadNetwork, trafficManager): roadNetwork tells whether
\* the vehicle was handed the network or null
NewNPCVehicle(roadNetwork) ==
    [ position |-> [x |-> 0, z |-> 0], rotation |-> 0,
      speed |-> 0, targetSpeed |-> 30 * VScale,
      currentLane |-> 0, currentSegment |-> 0,
      segmentProgress |-> 0, segmentDirection |-> 1, laneOffset |-> 0,
      turnSignal |-> "null",
      state |-> "driving", stoppingDistance |-> 0, waitTimer |-> 0,
      vehicleAhead |-> 0, distanceToVehicleAhead |-> Infinity,
      roadNetwork |-> roadNetwork, trafficManager |-> TRUE, mesh |-> FALSE ]

\* the squared distance from (x, z) to the nearest waypoint of a lane; a waypoint
\* beyond 75 world units along an axis counts as infinitely far
LaneDistanceSq(lane, x, z) ==
    LET sq(id) == LET wp == CityWaypoints[id]
                      dx == wp.position.x - x
                      dz == wp.position.z - z
                  IN  IF Abs(dx) > 30000 \/ Abs(dz) > 30000 THEN Infinity ELSE dx * dx + dz * dz
        all == {sq(lane.waypoints[k]) : k \in 1..Len(lane.waypoints)}
    IN  CHOOSE d \in all : \A e \in all : d <= e

\* findNearestLane(x, z): the first lane, in the order of roadNetwork.lanes, that
\* has a waypoint at the least distance (dist < nearestDist keeps the first);
\* 0 for null.  x, z lie within 75 world units of some waypoint.
findNearestLane(x, z) ==
    LET lanes == {l \in 1..Len(CityLanes) : Len(CityLanes[l].waypoints) > 0}
        d == [l \in lanes |-> LaneDistanceSq(CityLanes[l], x, z)]
    IN  IF lanes = {} THEN 0
        ELSE CHOOSE l \in lanes :
                 /\ \A m \in lanes : d[l] <= d[m]
                 /\ \A m \in lanes : m < l => d[m] > d[l]

\* spawn(x, z, heading): x, z in 1/PScale units, heading in 1/AngleDen turns
NPCVehicle_spawn(v, x, z, heading) ==
    LET nearestLane == IF v.roadNetwork THEN findNearestLane(x, z) ELSE 0
        w == IF nearestLane # 0
             THEN [v EXCEPT !.currentLane = nearestLane,
                            !.targetSpeed = CityLanes[nearestLane].speedLimit]
             ELSE v
    IN  [w EXCEPT !.mesh = TRUE, !.position = [x |-> x, z |-> z], !.rotation = heading,
                  !.speed = w.targetSpeed \div 2]

\* checkTrafficLights() that reacts to a required stop only within 10 units
checkTrafficLightsLate(v, lights) ==
    IF ~v.trafficManager THEN v
    ELSE LET result == shouldStop(lights, v.position, v.rotation, 25 * PScale)
         IN  IF result.shouldStop /\ result.distance < 10 * PScale
             THEN [v EXCEPT !.state = "stopping",
                            !.stoppingDistance = result.distance - 5 * PScale]
             ELSE IF v.state \in {"stopping", "waiting"} /\ ~result.shouldStop
                  THEN [v EXCEPT !.state = "accelerating"]
                  ELSE v

\* checkTrafficLights() that lets a waiting vehicle go without looking at the
\* answer of the query
checkTrafficLightsUnasked(v, lights) ==
    IF ~v.trafficManager THEN v
    ELSE LET result == shouldStop(lights, v.position, v.rotation, 25 * PScale)
         IN  IF v.state = "waiting"
             THEN [v EXCEPT !.state = "accelerating"]
             ELSE IF result.shouldStop /\ result.distance < 15 * PScale
                  THEN [v EXCEPT !.state = "stopping",
                                 !.stoppingDistance = result.distance - 5 * PScale]
                  ELSE IF v.state = "stopping" /\ ~result.shouldStop
                       THEN [v EXCEPT !.state = "accelerating"]
                       ELSE v

\* checkTrafficLights() that releases a vehicle from any state
checkTrafficLightsReleaseAny(v, lights) ==
    IF ~v.trafficManager THEN v
    ELSE LET result == shouldStop(lights, v.position, v.rotation, 25 * PScale)
         IN  IF result.shouldStop /\ result.distance < 15 * PScale
             THEN [v EXCEPT !.state = "stopping",
                            !.stoppingDistance = result.distance - 5 * PScale]
             ELSE IF ~result.shouldStop
                  THEN [v EXCEPT !.state = "accelerating"]
                  ELSE v

\* checkTrafficLights()
checkTrafficLights(v, lights) ==
    IF ~v.trafficManager THEN v
    ELSE LET result == shouldStop(lights, v.position, v.rotation, 25 * PScale)
         IN  IF result.shouldStop /\ result.distance < 15 * PScale
             THEN [v EXCEPT !.state = "stopping",
                            !.stoppingDistance = result.distance - 5 * PScale]
             ELSE IF v.state \in {"stopping", "waiting"} /\ ~result.shouldStop
                  THEN [v EXCEPT !.state = "accelerating"]
                  ELSE v

\* the body of allVehicles.forEach in checkVehicleAhead: `best` is
\* (vehicleAhead, distanceToVehicleAhead) so far, with its offset from this vehicle
AheadVisit(v, self, allVehicles, k, best) ==
    LET other == allVehicles[k]
        dx == other.position.x - v.position.x
        dz == other.position.z - v.position.z
        dot == dx * SinQ(v.rotation) + dz * CosQ(v.rotation)
        lateral == Abs(dx * CosQ(v.rotation) - dz * SinQ(v.rotation))
    IN  IF k = self THEN best
        ELSE IF ~DistLeq(dx, dz, followDistance * 2 * PScale) THEN best
        ELSE IF dot < 0 THEN best
        ELSE IF lateral > 3 * PScale * 10000 THEN best
        ELSE IF best.vehicle = 0 \/ dx * dx + dz * dz < best.dx * best.dx + best.dz * best.dz
             THEN [vehicle |-> k, distance |-> Hypot(dx, dz), dx |-> dx, dz |-> dz]
             ELSE best

RECURSIVE AheadFrom(_, _, _, _, _)
AheadFrom(v, self, allVehicles, k, best) ==
    IF k > Len(allVehicles) THEN best
    ELSE AheadFrom(v, self, allVehicles, k + 1, AheadVisit(v, self, allVehicles, k, best))

\* checkVehicleAhead(allVehicles); `self` is the place of this vehicle in the list
checkVehicleAhead(v, self, allVehicles) ==
    LET best == AheadFrom(v, self, allVehicles, 1,
                          [vehicle |-> 0, distance |-> Infinity, dx |-> 0, dz |-> 0])
        scanned == [v EXCEPT !.vehicleAhead = best.vehicle,
                             !.distanceToVehicleAhead = best.distance]
    IN  IF best.vehicle # 0 /\ best.distance < followDistance * PScale
        THEN IF best.distance < safeDistance * PScale
             THEN [scanned EXCEPT !.state = "stopping"]
             ELSE [scanned EXCEPT !.targetSpeed = Min(@, allVehicles[best.vehicle].speed)]
        ELSE scanned

\* this.currentLane?.speedLimit || 30
LaneSpeedLimit(v) ==
    IF v.currentLane # 0 THEN CityLanes[v.currentLane].speedLimit ELSE 30 * VScale

\* updateState(delta)
updateState(v, delta) ==
    CASE v.state = "driving" -> [v EXCEPT !.targetSpeed = LaneSpeedLimit(v)]
      [] v.state = "stopping" ->
            IF v.speed * 2 < VScale
            THEN [v EXCEPT !.targetSpeed = 0, !.state = "waiting", !.waitTimer = 0]
            ELSE [v EXCEPT !.targetSpeed = 0]
      [] v.state = "waiting" -> [v EXCEPT !.targetSpeed = 0, !.waitTimer = @ + delta]
      [] v.state = "accelerating" ->
            IF v.speed * 10 > LaneSpeedLimit(v) * 8
            THEN [v EXCEPT !.targetSpeed = LaneSpeedLimit(v), !.state = "driving"]
            ELSE [v EXCEPT !.targetSpeed = LaneSpeedLimit(v)]
      [] v.state = "turning" -> [v EXCEPT !.targetSpeed = 15 * VScale]
      [] OTHER -> v

\* speed control that brakes with the acceleration rate
SpeedControlSoftBrake(v, delta) ==
    LET speed == IF v.speed < v.targetSpeed
                 THEN v.speed + (acceleration * VScale * delta) \div TScale
                 ELSE IF v.speed > v.targetSpeed
                      THEN v.speed - (acceleration * VScale * delta) \div TScale
                      ELSE v.speed
    IN  [v EXCEPT !.speed = Max(0, Min(speed, maxSpeed * VScale))]

\* speed control that leaves the clamp out
SpeedControlNoClamp(v, delta) ==
    LET speed == IF v.speed < v.targetSpeed
                 THEN v.speed + (acceleration * VScale * delta) \div TScale
                 ELSE IF v.speed > v.targetSpeed
                      THEN v.speed - (brakeForce * VScale * delta) \div TScale
                      ELSE v.speed
    IN  [v EXCEPT !.speed = speed]

\* updateMovement(delta): speed control and clamp
SpeedControl(v, delta) ==
    LET speed == IF v.speed < v.targetSpeed
                 THEN v.speed + (acceleration * VScale * delta) \div TScale
                 ELSE IF v.speed > v.targetSpeed
                      THEN v.speed - (brakeForce * VScale * delta) \div TScale
                      ELSE v.speed
    IN  [v EXCEPT !.speed = Max(0, Min(speed, maxSpeed * VScale))]

\* Math.abs(position.x) > cityBound || Math.abs(position.z) > cityBound
OutsideCityBound(v) ==
    Abs(v.position.x) > cityBound * PScale \/ Abs(v.position.z) > cityBound * PScale

\* the values Math.random() takes in the model, in 1/100: one record per
\* vehicle and frame, read by findNearestSegment and pickNextSegment
PickDraws == {0, 34, 67}
LaneOffsetDraws == {35, 65}
SegmentDirectionDraws == {75}
NoDraw == [pick |-> 0, lane |-> 65, direction |-> 75]

\* (Math.random() - 0.5) * width * 0.4
RandomLaneOffset(random, width) == MulDiv(random - 50, (width * 4) \div 10, 100)

\* getTargetPointOnSegment()
getTargetPointOnSegment(v) ==
    LET seg == CitySegments[v.currentSegment]
        t == Min(v.segmentProgress + 20, 100)
    IN  IF seg.isCurved /\ seg.curveRadius # 0
        THEN OnCircle(seg.curveRadius + v.laneOffset,
                      seg.curveStartAngle + (t * (seg.curveEndAngle - seg.curveStartAngle)) \div 100)
        ELSE LET dx == seg.end.x - seg.start.x
                 dz == seg.end.z - seg.start.z
                 len == Hypot(dx, dz)
             IN  [x |-> seg.start.x + (t * dx) \div 100 + MulDiv(-dz, v.laneOffset, len),
                  z |-> seg.start.z + (t * dz) \div 100 + MulDiv(dx, v.laneOffset, len)]

\* the distance findNearestSegment computes from a position to a segment
SegmentDistance(seg, position) ==
    IF seg.isCurved /\ seg.curveRadius # 0
    THEN Abs(Hypot(position.x, position.z) - seg.curveRadius)
    ELSE LET dx == seg.end.x - seg.start.x
             dz == seg.end.z - seg.start.z
             len == Hypot(dx, dz)
             ux == (dx * 10000) \div len
             uz == (dz * 10000) \div len
             along == Unscaled((position.x - seg.start.x) * ux)
                        + Unscaled((position.z - seg.start.z) * uz)
             t == Max(0, Min(len, along))
             closestX == seg.start.x + Unscaled(t * ux)
             closestZ == seg.start.z + Unscaled(t * uz)
         IN  Hypot(position.x - closestX, position.z - closestZ)

\* findNearestSegment(): dist < nearestDist keeps the first of equally near segments
findNearestSegment(v, draw) ==
    LET d == [k \in 1..Len(CitySegments) |-> SegmentDistance(CitySegments[k], v.position)]
        nearestSeg == CHOOSE k \in 1..Len(CitySegments) :
                          /\ \A m \in 1..Len(CitySegments) : d[k] <= d[m]
                          /\ \A m \in 1..(k - 1) : d[m] > d[k]
    IN  IF ~v.roadNetwork \/ Len(CitySegments) = 0 THEN v
        ELSE IF d[nearestSeg] < 20 * PScale
             THEN [v EXCEPT !.currentSegment = nearestSeg,
                            !.segmentProgress = 0,
                            !.segmentDirection = IF draw.direction > 50 THEN 1 ELSE -1,
                            !.laneOffset = RandomLaneOffset(draw.lane,
                                                            CitySegments[nearestSeg].width),
                            !.targetSpeed = CitySegments[nearestSeg].speedLimit]
             ELSE v

\* the candidates array of pickNextSegment(): the other segments that start or
\* end within 15 units of the vehicle, in the order of getSegments()
NextSegmentCandidates(v) ==
    SelectSeq([k \in 1..Len(CitySegments) |-> k],
              LAMBDA k :
                  /\ k # v.currentSegment
                  /\ \/ DistLess(v.position.x - CitySegments[k].start.x,
                                  v.position.z - CitySegments[k].start.z, 15 * PScale)
                     \/ DistLess(v.position.x - CitySegments[k].end.x,
                                  v.position.z - CitySegments[k].end.z, 15 * PScale))

\* pickNextSegment()
pickNextSegment(v, draw) ==
    IF ~v.roadNetwork THEN [v EXCEPT !.segmentProgress = 0]
    ELSE LET candidates == NextSegmentCandidates(v)
         IN  IF Len(candidates) > 0
             THEN LET next == candidates[1 + (draw.pick * Len(candidates)) \div 100]
                  IN  [v EXCEPT !.currentSegment = next,
                                !.segmentProgress = 0,
                                !.laneOffset = RandomLaneOffset(draw.lane,
                                                                CitySegments[next].width),
                                !.targetSpeed = CitySegments[next].speedLimit]
             ELSE [v EXCEPT !.segmentProgress = 0, !.segmentDirection = -(@)]

\* updateMovement(delta), "Follow the current road segment"
FollowSegment(v, delta, draw) ==
    IF v.currentSegment # 0
    THEN LET target == getTargetPointOnSegment(v)
             dx == target.x - v.position.x
             dz == target.z - v.position.z
             angleDiff == NormalizeAngle(Atan2(dx, dz) - v.rotation)
             turned == [v EXCEPT !.turnSignal = IF Abs(angleDiff) > TurnSignalAngle
                                                THEN (IF angleDiff > 0 THEN "left" ELSE "right")
                                                ELSE "null",
                                 !.rotation = @ + MulDiv(angleDiff, delta * turnSpeed, TScale)]
         IN  IF DistLess(dx, dz, 3 * PScale)
             THEN IF turned.segmentProgress + 5 >= 100
                  THEN pickNextSegment([turned EXCEPT !.segmentProgress = @ + 5], draw)
                  ELSE [turned EXCEPT !.segmentProgress = @ + 5]
             ELSE turned
    ELSE IF v.roadNetwork THEN findNearestSegment(v, draw)
    ELSE v

\* updateMovement(delta), "Keep within city bounds"
KeepWithinCity(v, delta) ==
    IF OutsideCityBound(v)
    THEN LET toCenter == Atan2(-v.position.x, -v.position.z)
             angleDiff == NormalizeAngle(toCenter - v.rotation)
         IN  [v EXCEPT !.rotation = @ + MulDiv(angleDiff, delta * 3, TScale)]
    ELSE v

\* updateMovement(delta): speed control, steering, then the move forward
updateMovement(v, delta, draw) ==
    LET w == KeepWithinCity(FollowSegment(SpeedControl(v, delta), delta, draw), delta)
    IN  [w EXCEPT !.position = [x |-> @.x + Unscaled(SinQ(w.rotation) * w.speed * delta),
                                z |-> @.z + Unscaled(CosQ(w.rotation) * w.speed * delta)]]

\* update(delta, allVehicles)
NPCVehicle_update(v, self, delta, allVehicles, lights, draw) ==
    IF ~v.mesh THEN v
    ELSE updateMovement(
             updateState(
                 checkVehicleAhead(checkTrafficLights(v, lights), self, allVehicles),
                 delta),
             delta, draw)

\* the list and a vehicle update that also slows the vehicle it found ahead
UpdateVehicleInPushing(list, k, delta, lights, draw) ==
    LET updated == NPCVehicle_update(list[k], k, delta, list, lights, draw)
        pushed == [list EXCEPT ![k] = updated]
    IN  IF updated.vehicleAhead # 0
        THEN [pushed EXCEPT ![updated.vehicleAhead].targetSpeed = 0]
        ELSE pushed

\* vehicle.update(delta, this.vehicles) for the vehicle at place k of the list:
\* the list afterwards
UpdateVehicleIn(list, k, delta, lights, draw) ==
    [list EXCEPT ![k] = NPCVehicle_update(list[k], k, delta, list, lights, draw)]

\* this.vehicles.forEach(vehicle => vehicle.update(delta, this.vehicles)) from
\* place k on: each vehicle is handed the list as it stands then.  `lists` holds
\* the list as it stood before each update so far, the last one being current;
\* draws[k] holds the random values vehicle k reads in this frame.
RECURSIVE UpdateVehiclesFrom(_, _, _, _, _)
UpdateVehiclesFrom(lists, k, delta, lights, draws) ==
    LET list == lists[Len(lists)]
    IN  IF k > Len(list) THEN lists
        ELSE UpdateVehiclesFrom(
                 Append(lists, UpdateVehicleIn(list, k, delta, lights, draws[k])),
                 k + 1, delta, lights, draws)

\* NPCManager.update(delta), the part over this.vehicles
NPCManager_update(list, delta, lights, draws) ==
    UpdateVehiclesFrom(<<list>>, 1, delta, lights, draws)[Len(list) + 1]

----------------------------------------------------------------------------
(* Vehicles in traffic: the TrafficManager with its lights, an NPCManager   *)
(* whose vehicles are spawned one by one, then one frame after the other as *)
(* App.animate runs them: trafficManager.update, then npcManager.update.    *)

\* the frame length of a run, in 1/TScale s
VehicleDeltas == {5, 10}
\* spawn(x, z, heading) arguments, in world units and 1/AngleDen turns
SpawnPoints ==
    { [x |-> 0, z |-> -14, heading |-> 0], [x |-> 0, z |-> -10, heading |-> 0],
      [x |-> 0, z |-> -58, heading |-> 0], [x |-> 0, z |-> -54, heading |-> 0],
      [x |-> -14, z |-> 0, heading |-> Quarter] }
MaxVehicles == 2
\* frames are run while the time since the first frame is below MaxVehicleTime (1/TScale s)
MaxVehicleTime == 1500

InitVehicles ==
    /\ trafficLights = createTrafficLights(NetworkOutline)
    /\ vehicles = <<>>
    /\ cars = <<>>
    /\ net = NetworkOutline
    /\ pc = "constructed"
    /\ \E delta \in VehicleDeltas :
          call = [op |-> "new", delta |-> delta, time |-> 0, horizon |-> MaxVehicleTime]
    /\ ret = NoRet

\* one round of the loop of createVehicles: new NPCVehicle, spawn, push
SpawnVehicle ==
    /\ pc = "constructed"
    /\ Len(vehicles) < MaxVehicles
    /\ \E p \in SpawnPoints :
          vehicles' = Append(vehicles,
                          NPCVehicle_spawn(NewNPCVehicle(FALSE), p.x * PScale, p.z * PScale,
                                           p.heading))
    /\ call' = [call EXCEPT !.op = "spawn"]
    /\ UNCHANGED <<trafficLights, cars, net, pc, ret>>

\* bookkeeping for the properties, not program state: for each vehicle, the
\* speed it had at the end of the frame in which it became 'stopping' and the
\* frames run since; kept through the frame in which it stops being 'stopping'
Watch(previous, before, after) ==
    [k \in 1..Len(after) |->
        IF before[k].state = "stopping"
        THEN [previous[k] EXCEPT !.ticks = @ + 1]
        ELSE IF after[k].state = "stopping"
             THEN [speed |-> after[k].speed, ticks |-> 0]
             ELSE [speed |-> 0, ticks |-> 0]]

\* the random values a vehicle may read in a frame: findNearestSegment draws a
\* direction and a lane offset, pickNextSegment a candidate and a lane offset
VehicleDraws(v) ==
    IF ~v.roadNetwork THEN {NoDraw}
    ELSE IF v.currentSegment = 0
         THEN {[NoDraw EXCEPT !.lane = l, !.direction = d] :
                   l \in LaneOffsetDraws, d \in SegmentDirectionDraws}
         ELSE IF v.segmentProgress + 5 >= 100
              THEN {[NoDraw EXCEPT !.pick = p, !.lane = l] :
                        p \in PickDraws, l \in LaneOffsetDraws}
              ELSE {NoDraw}

FrameDraws(list) ==
    {draws \in [1..Len(list) -> UNION {VehicleDraws(list[k]) : k \in 1..Len(list)}] :
        \A k \in 1..Len(list) : draws[k] \in VehicleDraws(list[k])}

\* one frame of App.animate.  ret keeps, for the properties, the list before
\* the frame, the random values drawn and the list each vehicle was handed
\* (seen[k] for vehicle k); call keeps the watch.
Animate ==
    /\ pc \in {"constructed", "running"}
    /\ Len(vehicles) > 0
    /\ call.time < call.horizon
    /\ trafficLights' = TrafficManager_update(trafficLights, call.delta)
    /\ \E draws \in FrameDraws(vehicles) :
          ret' = [ kind |-> "frame", before |-> vehicles, draws |-> draws,
                   seen |-> UpdateVehiclesFrom(<<vehicles>>, 1, call.delta, trafficLights',
                                               draws) ]
    \* the list npcManager.update(delta) leaves
    /\ vehicles' = ret'.seen[Len(vehicles) + 1]
    /\ pc' = "running"
    /\ call' = [ op |-> "animate", delta |-> call.delta, time |-> call.time + call.delta,
                 horizon |-> call.horizon,
                 watch |-> Watch(IF call.op = "animate" THEN call.watch
                                 ELSE [k \in 1..Len(vehicles) |-> [speed |-> 0, ticks |-> 0]],
                                 vehicles, vehicles') ]
    /\ UNCHANGED <<cars, net>>

NextVehicles == SpawnVehicle \/ Animate

SpecVehicles == InitVehicles /\ [][NextVehicles]_vars

----------------------------------------------------------------------------
(* Vehicles in the city, as the App builds them: NPCManager is handed the   *)
(* road network and the traffic manager, createVehicles spawns each vehicle *)
(* at getRandomSpawnPoint(), heading 0 or PI by the lane's direction.       *)

\* getRandomSpawnPoint(), the two values of Math.random() given in 1/10000
getRandomSpawnPoint(laneRandom, waypointRandom) ==
    LET drivableLanes == SelectSeq(CityLanes,
                             LAMBDA l : StartsWith(l.segmentId, "main")
                                          \/ StartsWith(l.segmentId, "highway"))
        lane == drivableLanes[1 + (laneRandom * Len(drivableLanes)) \div 10000]
        waypointIds == lane.waypoints
        startWpId == waypointIds[1 + (waypointRandom * (Len(waypointIds) - 1)) \div 10000]
        wp == CityWaypoints[startWpId]
    IN  [position |-> wp.position, lane |-> lane.id, direction |-> lane.direction]

\* the random values of getRandomSpawnPoint() tried: on main-v1 lane 0, 8 units
\* before the light at the center; on main-h1 lane 0, at x = -64 across the road;
\* on highway-0 lane 0
CitySpawnDraws ==
    { [lane |-> 1819, waypoint |-> 4700], [lane |-> 500, waypoint |-> 2400],
      [lane |-> 2728, waypoint |-> 100] }
MaxCityVehicles == 2
\* frames are run while the time since the first frame is below MaxCityTime (1/TScale s)
MaxCityTime == 600

InitCity ==
    /\ trafficLights = createTrafficLights(NetworkOutline)
    /\ vehicles = <<>>
    /\ cars = <<>>
    /\ net = RoadNetwork
    /\ pc = "constructed"
    /\ \E delta \in VehicleDeltas :
          call = [op |-> "new", delta |-> delta, time |-> 0, horizon |-> MaxCityTime]
    /\ ret = NoRet

\* one round of the loop of createVehicles with a road network
SpawnCityVehicle ==
    /\ pc = "constructed"
    /\ Len(vehicles) < MaxCityVehicles
    /\ \E r \in CitySpawnDraws :
          LET spawnData == getRandomSpawnPoint(r.lane, r.waypoint)
              heading == IF spawnData.direction > 0 THEN 0 ELSE HalfTurn
          IN  vehicles' = Append(vehicles,
                              NPCVehicle_spawn(NewNPCVehicle(TRUE), spawnData.position.x,
                                               spawnData.position.z, heading))
    /\ call' = [call EXCEPT !.op = "spawn"]
    /\ UNCHANGED <<trafficLights, cars, net, pc, ret>>

NextCity == SpawnCityVehicle \/ Animate

SpecCity == InitCity /\ [][NextCity]_vars

\* One vehicle followed along its route to the end of its segment, at 50 frames
\* a second; at this frame length a speed step below maxSpeed is rounded down
\* to the 1/VScale grid.
RouteDeltas == {2}
\* The random values of getRandomSpawnPoint() tried: on main-v0 lane 1 and on
\* main-v1 lane 1, both at z = -72
RouteSpawnDraws ==
    { [lane |-> 1497, waypoint |-> 2000], [lane |-> 1933, waypoint |-> 2000] }
\* frames are run while the time since the first frame is below MaxRouteTime (1/TScale s)
MaxRouteTime == 500

InitRoute ==
    /\ trafficLights = createTrafficLights(NetworkOutline)
    /\ vehicles = <<>>
    /\ cars = <<>>
    /\ net = RoadNetwork
    /\ pc = "constructed"
    /\ \E delta \in RouteDeltas :
          call = [op |-> "new", delta |-> delta, time |-> 0, horizon |-> MaxRouteTime]
    /\ ret = NoRet

\* createVehicles(1) with a road network
SpawnRouteVehicle ==
    /\ pc = "constructed"
    /\ Len(vehicles) = 0
    /\ \E r \in RouteSpawnDraws :
          LET spawnData == getRandomSpawnPoint(r.lane, r.waypoint)
              heading == IF spawnData.direction > 0 THEN 0 ELSE HalfTurn
          IN  vehicles' = Append(vehicles,
                              NPCVehicle_spawn(NewNPCVehicle(TRUE), spawnData.position.x,
                                               spawnData.position.z, heading))
    /\ call' = [call EXCEPT !.op = "spawn"]
    /\ UNCHANGED <<trafficLights, cars, net, pc, ret>>

NextRoute == SpawnRouteVehicle \/ Animate

SpecRoute == InitRoute /\ [][NextRoute]_vars

\* 25 * dt, the speed a braking vehicle loses in one frame
BrakeStep == (brakeForce * VScale * call.delta) \div TScale

\* in the last frame the signal query of vehicle k required no stop and no
\* vehicle ahead of it was within safeDistance
Released(k) ==
    LET v == ret.before[k]
        result == shouldStop(trafficLights, v.position, v.rotation, 25 * PScale)
        scanned == checkVehicleAhead(v, k, ret.seen[k])
    IN  /\ ~result.shouldStop
        /\ ~(scanned.vehicleAhead # 0 /\ scanned.distanceToVehicleAhead < safeDistance * PScale)

\* a vehicle 'stopping' with speed v > 0 is still 'stopping' after at most
\* ceil(v / (25 dt)) further frames
StoppingBounded(k) ==
    /\ (vehicles[k].state = "stopping" /\ call.watch[k].speed > 0)
          => call.watch[k].ticks <= CeilDiv(call.watch[k].speed, BrakeStep)
    /\ (ret.before[k].state = "stopping" /\ vehicles[k].state = "waiting" /\ call.watch[k].speed > 0)
          => call.watch[k].ticks <= CeilDiv(call.watch[k].speed, BrakeStep) + 1

\* C5 as stated: a vehicle 'stopping' with speed v > 0 reaches 'waiting' within
\* ceil(v / (25 dt)) + 1 frames of length dt and is in no state other than
\* 'stopping' before that.
C5_StoppingReachesWaiting ==
    ret.kind = "frame" =>
        \A k \in 1..Len(vehicles) :
            /\ StoppingBounded(k)
            /\ ret.before[k].state = "stopping" => vehicles[k].state \in {"stopping", "waiting"}

\* C5: a vehicle 'stopping' with speed v > 0 reaches 'waiting' within
\* ceil(v / (25 dt)) + 1 frames of length dt, in no state other than 'stopping'
\* before that, unless in one of these frames the signal query requires no
\* stop while no vehicle ahead is within safeDistance: in such a frame, and in
\* no other, it leaves 'stopping' for 'accelerating' (or on to 'driving').
C5_StoppingReachesWaitingOrReleased ==
    ret.kind = "frame" =>
        \A k \in 1..Len(vehicles) :
            /\ StoppingBounded(k)
            /\ ret.before[k].state = "stopping" =>
                  \/ vehicles[k].state \in {"stopping", "waiting"}
                  \/ Released(k) /\ vehicles[k].state \in {"accelerating", "driving"}
            /\ (ret.before[k].state = "stopping" /\ Released(k)) =>
                  vehicles[k].state \in {"accelerating", "driving"}

\* a vehicle has braked from a positive speed through several frames to 'waiting'
C5_Witness ==
    /\ ret.kind = "frame"
    /\ \E k \in 1..Len(vehicles) :
          /\ ret.before[k].state = "stopping"
          /\ vehicles[k].state = "waiting"
          /\ call.watch[k].speed > 0
          /\ call.watch[k].ticks >= 3

\* C10: in a frame, the position checkVehicleAhead of a vehicle reads for every
\* other vehicle, and the speed it reads for the vehicle ahead, are those the
\* other vehicle had before the frame.
C10_SnapshotIsolation ==
    ret.kind = "frame" =>
        \A k \in 1..Len(vehicles) : \A j \in 1..Len(vehicles) \ {k} :
            /\ ret.seen[k][j].position = ret.before[j].position
            /\ (/\ vehicles[k].vehicleAhead = j
                /\ vehicles[k].distanceToVehicleAhead < followDistance * PScale
                /\ vehicles[k].distanceToVehicleAhead >= safeDistance * PScale)
               => ret.seen[k][j].speed = ret.before[j].speed

\* what the code does: a vehicle reads the vehicles before it in the list as
\* they are after their update of this frame, the vehicles behind it as they
\* were before the frame
C10_CodeBehaviour ==
    ret.kind = "frame" =>
        \A k \in 1..Len(vehicles) : \A j \in 1..Len(vehicles) \ {k} :
            ret.seen[k][j] = IF j < k THEN vehicles[j] ELSE ret.before[j]

----------------------------------------------------------------------------
(* Properties of the signal queries, under SpecTraffic *)

\* the offset of light id from the position of the last query
QueryOffset(id) ==
    LET lightPos == TrafficLight_getPosition(trafficLights[id])
    IN  [x |-> lightPos.x - call.position.x, z |-> lightPos.z - call.position.z]

QueryDistance(id) == Hypot(QueryOffset(id).x, QueryOffset(id).z)

\* light id is between 2 and checkDistance away, not behind the vehicle, and
\* red or yellow for the approach classified by the larger offset
QueryQualifies(id) ==
    LET to == QueryOffset(id)
        phase == trafficLights[id].phases[trafficLights[id].currentPhaseIndex + 1]
        aspect == IF Abs(to.x) > Abs(to.z) THEN phase.ew ELSE phase.ns
    IN  /\ to.x * to.x + to.z * to.z <= (call.checkDistance * PScale) * (call.checkDistance * PScale)
        /\ to.x * to.x + to.z * to.z >= (2 * PScale) * (2 * PScale)
        /\ to.x * SinQ(call.heading) + to.z * CosQ(call.heading) >= 0
        /\ aspect \in {"red", "yellow"}

QueryCandidates == {id \in DOMAIN trafficLights : Abs(QueryOffset(id).x) <= 30 * PScale
                                                  /\ Abs(QueryOffset(id).z) <= 30 * PScale
                                                  /\ QueryQualifies(id)}

WalkLightsInRange ==
    {id \in DOMAIN trafficLights :
        LET pos == TrafficLight_getPosition(trafficLights[id])
            dx == pos.x - call.position.x
            dz == pos.z - call.position.z
        IN  Abs(dx) <= 20 * PScale /\ Abs(dz) <= 20 * PScale
            /\ dx * dx + dz * dz <= (20 * PScale) * (20 * PScale)}

WalkNearestLights ==
    LET sq(id) == LET pos == TrafficLight_getPosition(trafficLights[id])
                      dx == pos.x - call.position.x
                      dz == pos.z - call.position.z
                  IN  dx * dx + dz * dz
    IN  {id \in WalkLightsInRange : \A other \in WalkLightsInRange : sq(id) <= sq(other)}

\* C13: isPedestrianWalkSignal returns true when no light lies within 20 units
\* of the position (also when there is no light at all); otherwise it returns
\* true exactly when the nearest light is in phase 2 or 5 (all red).
C13_WalkSignal ==
    pc = "walkReturned" =>
        IF WalkLightsInRange = {}
        THEN ret.walk = TRUE
        ELSE \E id \in WalkNearestLights :
                ret.walk = (trafficLights[id].currentPhaseIndex \in {2, 5})

\* a walk query at exactly 20 units from a light in an all-red phase
C13_Witness ==
    /\ pc = "walkReturned"
    /\ call.position = Pt(12, 16)
    /\ WalkLightsInRange # {}
    /\ ret.walk = TRUE

----------------------------------------------------------------------------
(* Properties of one vehicle's tick, under SpecCity *)

\* what shouldStop (lookahead 25) answered vehicle k in the last frame
SignalQuery(k) ==
    shouldStop(trafficLights, ret.before[k].position, ret.before[k].rotation, 25 * PScale)

\* in the last frame findNearestSegment or pickNextSegment gave vehicle k a segment
SegmentTaken(k) == vehicles[k].currentSegment # ret.before[k].currentSegment

\* C14 as stated: at the end of every tick in which shouldStop (lookahead 25)
\* reported a red or yellow light ahead at a distance below 15, the vehicle is
\* 'stopping' or 'waiting' and its targetSpeed is 0, whatever its state was before.
C14_SignalObedience ==
    ret.kind = "frame" =>
        \A k \in 1..Len(vehicles) :
            (SignalQuery(k).shouldStop /\ SignalQuery(k).distance < 15 * PScale)
            => /\ vehicles[k].state \in {"stopping", "waiting"}
               /\ vehicles[k].targetSpeed = 0

\* C14: at the end of every tick in which shouldStop (lookahead 25) reported a
\* red or yellow light ahead at a distance below 15, the vehicle is 'stopping'
\* or 'waiting' and the speed control of that tick ran with target 0: the speed
\* is the old one less 25 dt, not below 0.  The targetSpeed field is 0 unless
\* the vehicle took a segment in that tick, which leaves the segment's speed
\* limit in it.
C14_SignalObedienceAtSpeedControl ==
    ret.kind = "frame" =>
        \A k \in 1..Len(vehicles) :
            (SignalQuery(k).shouldStop /\ SignalQuery(k).distance < 15 * PScale)
            => /\ vehicles[k].state \in {"stopping", "waiting"}
               /\ vehicles[k].speed = Max(0, ret.before[k].speed - BrakeStep)
               /\ IF SegmentTaken(k)
                  THEN vehicles[k].targetSpeed
                         = CitySegments[vehicles[k].currentSegment].speedLimit
                  ELSE vehicles[k].targetSpeed = 0

\* a driving vehicle met a red or yellow light less than 15 units ahead in the
\* tick in which it took its segment: it braked and is 'stopping', the segment's
\* speed limit in targetSpeed
C14_Witness ==
    /\ ret.kind = "frame"
    /\ \E k \in 1..Len(vehicles) :
          /\ ret.before[k].state = "driving"
          /\ SignalQuery(k).shouldStop
          /\ SignalQuery(k).distance < 15 * PScale
          /\ SegmentTaken(k)
          /\ vehicles[k].state = "stopping"
          /\ vehicles[k].speed < ret.before[k].speed
          /\ vehicles[k].targetSpeed > 0

----------------------------------------------------------------------------
(* Properties of following, under SpecVehicles *)

\* vehicle k of the last frame after checkTrafficLights and checkVehicleAhead
Scanned(k) ==
    checkVehicleAhead(checkTrafficLights(ret.before[k], trafficLights), k, ret.seen[k])

\* the targetSpeed the speed control of updateMovement read for vehicle k in the
\* last frame: the one updateState left
TargetSpeedUsed(k) == updateState(Scanned(k), call.delta).targetSpeed

\* in the last frame the nearest qualifying vehicle ahead of k was at a distance
\* from safeDistance up to, not including, followDistance
Following(k) ==
    /\ Scanned(k).vehicleAhead # 0
    /\ Scanned(k).distanceToVehicleAhead >= safeDistance * PScale
    /\ Scanned(k).distanceToVehicleAhead < followDistance * PScale

\* C15: in every tick in which the nearest qualifying vehicle ahead is at a
\* distance d with safeDistance <= d < followDistance, the target speed the
\* speed control of that tick uses is no greater than the lead vehicle's speed;
\* when d < safeDistance the vehicle's state is forced to 'stopping'.
C15_SpeedMatching ==
    ret.kind = "frame" =>
        \A k \in 1..Len(vehicles) :
            /\ Following(k)
                  => TargetSpeedUsed(k) <= ret.seen[k][Scanned(k).vehicleAhead].speed
            /\ (/\ Scanned(k).vehicleAhead # 0
                /\ Scanned(k).distanceToVehicleAhead < safeDistance * PScale)
                  => Scanned(k).state = "stopping"

\* what the code does: the cap of checkVehicleAhead is in force only until
\* updateState, which gives a 'driving' or 'accelerating' vehicle the lane's
\* speed limit as target again; within safeDistance the vehicle is 'stopping'
C15_CodeBehaviour ==
    ret.kind = "frame" =>
        \A k \in 1..Len(vehicles) :
            /\ Following(k)
                  => /\ Scanned(k).targetSpeed <= ret.seen[k][Scanned(k).vehicleAhead].speed
                     /\ TargetSpeedUsed(k)
                          = IF Scanned(k).state \in {"driving", "accelerating"}
                            THEN LaneSpeedLimit(ret.before[k])
                            ELSE 0
            /\ (/\ Scanned(k).vehicleAhead # 0
                /\ Scanned(k).distanceToVehicleAhead < safeDistance * PScale)
                  => Scanned(k).state = "stopping"

----------------------------------------------------------------------------
(* Properties of the speed and the state of a vehicle, under SpecCity *)

\* 15 * dt, the speed an accelerating vehicle gains in one frame
AccelStep == (acceleration * VScale * call.delta) \div TScale

\* C16: after every NPCVehicle.update tick the vehicle's speed is at least 0
\* and at most maxSpeed, whatever the frame length and the target speed.
C16_SpeedWithinRange ==
    ret.kind = "frame" =>
        \A n \in 1..Len(ret.seen) : \A k \in 1..Len(vehicles) :
            /\ ret.seen[n][k].speed >= 0
            /\ ret.seen[n][k].speed <= maxSpeed * VScale

\* in one frame a vehicle below its target and less than one step of
\* acceleration under maxSpeed ended at maxSpeed, and a vehicle above its
\* target and less than one step of braking above 0 ended at 0
C16_Witness ==
    /\ ret.kind = "frame"
    /\ \E k \in 1..Len(vehicles) :
          /\ TargetSpeedUsed(k) > ret.before[k].speed
          /\ ret.before[k].speed + AccelStep > maxSpeed * VScale
          /\ vehicles[k].speed = maxSpeed * VScale
    /\ \E k \in 1..Len(vehicles) :
          /\ TargetSpeedUsed(k) < ret.before[k].speed
          /\ ret.before[k].speed - BrakeStep < 0
          /\ vehicles[k].speed = 0

----------------------------------------------------------------------------
(* Who writes what: the calls of the App's frame taken one by one and in    *)
(* any order on two vehicles of the city: one vehicle's update, the traffic *)
(* manager's update, and the two signal queries.                            *)

MaxOwnerCalls == 3

InitOwner ==
    /\ trafficLights = createTrafficLights(NetworkOutline)
    /\ vehicles = <<>>
    /\ cars = <<>>
    /\ net = RoadNetwork
    /\ pc = "constructed"
    /\ \E delta \in VehicleDeltas :
          call = [op |-> "create", delta |-> delta, calls |-> 0, vehicle |-> 0, from |-> "create"]
    /\ ret = NoRet

\* one round of the loop of createVehicles for a count of two; the frames start
\* when it has returned
CreateVehicle ==
    /\ pc = "constructed"
    /\ Len(vehicles) < 2
    /\ \E r \in CitySpawnDraws :
          LET spawnData == getRandomSpawnPoint(r.lane, r.waypoint)
              heading == IF spawnData.direction > 0 THEN 0 ELSE HalfTurn
          IN  vehicles' = Append(vehicles,
                              NPCVehicle_spawn(NewNPCVehicle(TRUE), spawnData.position.x,
                                               spawnData.position.z, heading))
    /\ pc' = IF Len(vehicles) = 1 THEN "running" ELSE "constructed"
    /\ UNCHANGED <<trafficLights, cars, net, call, ret>>

\* vehicles[k].update(delta, this.vehicles)
VehicleUpdate ==
    /\ pc = "running"
    /\ call.calls < MaxOwnerCalls
    /\ \E k \in 1..Len(vehicles) : \E draw \in VehicleDraws(vehicles[k]) :
          /\ vehicles' = UpdateVehicleIn(vehicles, k, call.delta, trafficLights, draw)
          /\ call' = [call EXCEPT !.op = "NPCVehicle.update", !.vehicle = k, !.calls = @ + 1]
    /\ UNCHANGED <<trafficLights, cars, net, pc, ret>>

\* trafficManager.update(delta)
LightsUpdate ==
    /\ pc = "running"
    /\ call.calls < MaxOwnerCalls
    /\ trafficLights' = TrafficManager_update(trafficLights, call.delta)
    /\ call' = [call EXCEPT !.op = "TrafficManager.update", !.vehicle = 0, !.calls = @ + 1]
    /\ UNCHANGED <<vehicles, cars, net, pc, ret>>

\* trafficManager.shouldStop at a vehicle's position and heading
VehicleShouldStop ==
    /\ pc = "running"
    /\ \E k \in 1..Len(vehicles) :
          /\ ret' = shouldStop(trafficLights, vehicles[k].position, vehicles[k].rotation,
                               25 * PScale)
          /\ call' = [call EXCEPT !.op = "shouldStop", !.vehicle = k, !.from = call.op]
    /\ pc' = "queried"
    /\ UNCHANGED <<trafficLights, vehicles, cars, net>>

\* trafficManager.isPedestrianWalkSignal at a vehicle's position
VehicleWalkSignal ==
    /\ pc = "running"
    /\ \E k \in 1..Len(vehicles) :
          /\ ret' = [kind |-> "walk",
                     walk |-> isPedestrianWalkSignal(trafficLights, vehicles[k].position)]
          /\ call' = [call EXCEPT !.op = "isPedestrianWalkSignal", !.vehicle = k,
                                  !.from = call.op]
    /\ pc' = "queried"
    /\ UNCHANGED <<trafficLights, vehicles, cars, net>>

QueryReturn ==
    /\ pc = "queried"
    /\ pc' = "running"
    /\ ret' = NoRet
    /\ call' = [call EXCEPT !.op = call.from]
    /\ UNCHANGED <<trafficLights, vehicles, cars, net>>

NextOwner ==
    CreateVehicle \/ VehicleUpdate \/ LightsUpdate \/ VehicleShouldStop \/ VehicleWalkSignal \/ QueryReturn

SpecOwner == InitOwner /\ [][NextOwner]_vars

\* C17: an NPCVehicle.update(delta, allVehicles) call changes only that
\* vehicle's own fields: it leaves every other vehicle, every traffic light's
\* phase index and timer, and the road network's segments, lanes, waypoints and
\* intersections as they were; shouldStop and isPedestrianWalkSignal change
\* none of the vehicles, lights and network at all.
C17_OwnershipFrame ==
    [][ /\ call'.op = "NPCVehicle.update" /\ call'.calls = call.calls + 1
           => /\ \A j \in 1..Len(vehicles) : j # call'.vehicle => vehicles'[j] = vehicles[j]
              /\ Len(vehicles') = Len(vehicles)
              /\ trafficLights' = trafficLights
              /\ net' = net
        /\ call'.op \in {"shouldStop", "isPedestrianWalkSignal"}
           => /\ vehicles' = vehicles
              /\ trafficLights' = trafficLights
              /\ net' = net ]_vars

\* a vehicle that found a vehicle ahead within followDistance was just updated;
\* the one ahead keeps its positive target speed
C17_Witness ==
    /\ call.op = "NPCVehicle.update"
    /\ vehicles[call.vehicle].vehicleAhead # 0
    /\ vehicles[call.vehicle].distanceToVehicleAhead < followDistance * PScale
    /\ vehicles[vehicles[call.vehicle].vehicleAhead].targetSpeed > 0

----------------------------------------------------------------------------
\* Properties of the state of a vehicle from frame to frame, under SpecCity

\* C18: a vehicle that is 'waiting' at the end of one tick is 'waiting' or
\* 'accelerating' at the end of the next; it is 'accelerating' only when the
\* shouldStop query of that tick reported that no stop is required; the
\* waitTimer, however large, never ends the waiting.
C18_WaitingExit ==
    ret.kind = "frame" =>
        \A k \in 1..Len(vehicles) :
            ret.before[k].state = "waiting" =>
                /\ vehicles[k].state \in {"waiting", "accelerating"}
                /\ vehicles[k].state = "accelerating" => ~SignalQuery(k).shouldStop

\* a waiting vehicle was released by the query and is accelerating
C18_Witness ==
    /\ ret.kind = "frame"
    /\ \E k \in 1..Len(vehicles) :
          /\ ret.before[k].state = "waiting"
          /\ ~SignalQuery(k).shouldStop
          /\ vehicles[k].state = "accelerating"

\* a waiting vehicle was held by the query and is still waiting
C18_Held ==
    /\ ret.kind = "frame"
    /\ \E k \in 1..Len(vehicles) :
          /\ ret.before[k].state = "waiting"
          /\ SignalQuery(k).shouldStop
          /\ vehicles[k].state = "waiting"

----------------------------------------------------------------------------
\* Properties of accelerating, under SpecCityFair

\* the step of the traffic lights that opens every frame of Animate; no other
\* action of SpecCity changes the lights
FrameDue ==
    /\ pc \in {"constructed", "running"}
    /\ Len(vehicles) > 0
    /\ call.time < call.horizon
    /\ trafficLights' = TrafficManager_update(trafficLights, call.delta)

\* the animation loop requests the next frame at the end of every frame, so a
\* frame that can run does run
SpecCityFair == SpecCity /\ WF_trafficLights(FrameDue)

\* the time in which `acceleration` brings a vehicle from rest to maxSpeed,
\* rounded up to whole seconds
SpinUp == TScale * (maxSpeed \div acceleration + 1)

\* vehicle k is 'accelerating' and the run lasts long enough for it to reach
\* any speed up to maxSpeed
Accelerating(k) ==
    /\ k <= Len(vehicles)
    /\ vehicles[k].state = "accelerating"
    /\ call.time + SpinUp <= call.horizon

\* vehicle k is 'driving', or was required to stop again
DrivingOrStopped(k) ==
    /\ k <= Len(vehicles)
    /\ vehicles[k].state \in {"driving", "stopping", "waiting"}

\* C19: for every lane a vehicle can be spawned on (main limit 50, highway
\* limit 80), a vehicle that enters 'accelerating' and is not required to stop
\* again eventually reaches 'driving'.
C19_AcceleratingReachesDriving ==
    \A k \in 1..MaxCityVehicles : Accelerating(k) ~> DrivingOrStopped(k)

\* the same for the vehicles spawned on a lane whose limit is at most maxSpeed
C19_WithinMaxSpeed ==
    \A k \in 1..MaxCityVehicles :
        (Accelerating(k) /\ LaneSpeedLimit(vehicles[k]) <= maxSpeed * VScale)
            ~> DrivingOrStopped(k)

\* what the code does on a lane whose limit is above maxSpeed / 0.8: no frame
\* takes an 'accelerating' vehicle of such a lane to 'driving'
C19_CodeBehaviour ==
    ret.kind = "frame" =>
        \A k \in 1..Len(vehicles) :
            (/\ ret.before[k].state = "accelerating"
             /\ LaneSpeedLimit(vehicles[k]) * 8 >= maxSpeed * VScale * 10)
                => vehicles[k].state # "driving"

\* a vehicle of a highway lane is 'accelerating' at maxSpeed, below the 80% of
\* its lane's limit that updateState asks for
C19_AtMaxSpeed ==
    \E k \in 1..Len(vehicles) :
        /\ vehicles[k].state = "accelerating"
        /\ vehicles[k].speed = maxSpeed * VScale
        /\ vehicles[k].speed * 10 <= LaneSpeedLimit(vehicles[k]) * 8

----------------------------------------------------------------------------
\* Properties of the states of a vehicle, under SpecCity

\* the angleDiff updateMovement computed for vehicle k in the last frame, from
\* its heading to its look-ahead target
HeadingDelta(k) ==
    LET v == ret.before[k]
        target == getTargetPointOnSegment(v)
    IN  NormalizeAngle(Atan2(target.x - v.position.x, target.z - v.position.z) - v.rotation)

\* in the last frame vehicle k followed a segment and its look-ahead target was
\* more than a quarter turn off its heading
LargeHeadingDelta(k) ==
    /\ ret.before[k].currentSegment # 0
    /\ Abs(HeadingDelta(k)) > Quarter

\* C20: a vehicle whose heading delta to its look-ahead target is large enters
\* 'turning', in which its target speed is 15; and the state of every vehicle is
\* always one of driving, stopping, waiting, accelerating, turning.
C20_TurningOnLargeDelta ==
    /\ \A k \in 1..Len(vehicles) :
          vehicles[k].state \in {"driving", "stopping", "waiting", "accelerating", "turning"}
    /\ ret.kind = "frame" =>
          \A k \in 1..Len(vehicles) :
              LargeHeadingDelta(k) =>
                  /\ vehicles[k].state = "turning"
                  /\ updateState(vehicles[k], call.delta).targetSpeed = 15 * VScale

\* what the code does: no vehicle is ever 'turning'; a heading delta above
\* TurnSignalAngle sets the turn signal and nothing else
C20_CodeBehaviour ==
    /\ \A k \in 1..Len(vehicles) :
          vehicles[k].state \in {"driving", "stopping", "waiting", "accelerating"}
    /\ ret.kind = "frame" =>
          \A k \in 1..Len(vehicles) :
              ret.before[k].currentSegment # 0 =>
                  (vehicles[k].turnSignal # "null") = (Abs(HeadingDelta(k)) > TurnSignalAngle)

\* a vehicle turned through a large heading delta while 'driving'
C20_LargeDeltaSeen ==
    /\ ret.kind = "frame"
    /\ \E k \in 1..Len(vehicles) :
          /\ LargeHeadingDelta(k)
          /\ vehicles[k].state = "driving"
          /\ vehicles[k].turnSignal # "null"

----------------------------------------------------------------------------
\* Properties of the green-wave groups, under SpecTraffic

\* the members of a group as a set
GroupIds(group) == {group[k] : k \in 1..Len(group)}

\* C21: every group of lights applyGreenWave applies one cumulative offset
\* sequence to lies on one main-road axis (equal z in the horizontal group,
\* equal x in the vertical one), no light is in both groups, and the first
\* light of the horizontal group is seeded with 0, the first of the vertical
\* group with baseCycleTime / 2 = 13.
C21_GreenWaveGroups ==
    LightsCreated =>
        LET H == MainHGroup(trafficLights)
            V == MainVGroup(trafficLights)
            pos(id) == TrafficLight_getPosition(trafficLights[id])
        IN  /\ \A a \in GroupIds(H), b \in GroupIds(H) : pos(a).z = pos(b).z
            /\ \A a \in GroupIds(V), b \in GroupIds(V) : pos(a).x = pos(b).x
            /\ GroupIds(H) \cap GroupIds(V) = {}
            /\ trafficLights[H[1]].phaseOffset = 0
            /\ trafficLights[V[1]].phaseOffset = (baseCycleTime * TScale) \div 2

\* what the code does: the horizontal group holds the row z = 0 and the whole
\* column x = 0, which is the vertical group as well; the seeds are as stated
C21_CodeBehaviour ==
    LightsCreated =>
        LET H == MainHGroup(trafficLights)
            V == MainVGroup(trafficLights)
        IN  /\ H = <<LightAt(-80, 0), LightAt(0, -80), LightAt(0, 0), LightAt(0, 80),
                     LightAt(80, 0)>>
            /\ V = <<LightAt(0, -80), LightAt(0, 0), LightAt(0, 80)>>
            /\ trafficLights[H[1]].phaseOffset = 0
            /\ trafficLights[V[1]].phaseOffset = (baseCycleTime * TScale) \div 2

----------------------------------------------------------------------------
\* Properties of the target speed while driving, under SpecCity

\* in the last frame vehicle k had a segment and was 'driving' when updateState
\* had run
DrivingOnSegment(k) ==
    /\ ret.before[k].currentSegment # 0
    /\ updateState(Scanned(k), call.delta).state = "driving"

\* C22: in state 'driving', after updateState the target speed equals the speed
\* limit of the segment the vehicle is travelling on, also when that segment's
\* limit differs from the limit of the lane it was spawned on.
C22_DrivingTargetIsSegmentLimit ==
    ret.kind = "frame" =>
        \A k \in 1..Len(vehicles) :
            DrivingOnSegment(k) =>
                TargetSpeedUsed(k) = CitySegments[ret.before[k].currentSegment].speedLimit

\* what the code does: the target is the limit of the lane found at spawn
C22_CodeBehaviour ==
    ret.kind = "frame" =>
        \A k \in 1..Len(vehicles) :
            DrivingOnSegment(k) =>
                /\ TargetSpeedUsed(k) = CityLanes[ret.before[k].currentLane].speedLimit
                /\ vehicles[k].currentLane = ret.before[k].currentLane

----------------------------------------------------------------------------
\* Properties of the wait timer, under SpecCity

\* vehicle k was 'waiting' before the last frame and is 'waiting' after it, and
\* the signal query of that frame required a stop at a light closer than 15
HeldAtLight(k) ==
    /\ ret.before[k].state = "waiting"
    /\ vehicles[k].state = "waiting"
    /\ SignalQuery(k).shouldStop
    /\ SignalQuery(k).distance < 15 * PScale

\* C23: while a vehicle stays 'waiting' at a red light that is within 15 units
\* ahead, its targetSpeed stays 0 and after each such tick its waitTimer is
\* larger by dt than after the tick before.
C23_WaitTimerAccumulates ==
    ret.kind = "frame" =>
        \A k \in 1..Len(vehicles) :
            HeldAtLight(k) =>
                /\ TargetSpeedUsed(k) = 0
                /\ vehicles[k].waitTimer = ret.before[k].waitTimer + call.delta

\* what the code does: a light within 15 makes the vehicle 'stopping' again in
\* every tick, and updateState's way back to 'waiting' sets the timer to 0
C23_CodeBehaviour ==
    ret.kind = "frame" =>
        \A k \in 1..Len(vehicles) :
            HeldAtLight(k) => (TargetSpeedUsed(k) = 0 /\ vehicles[k].waitTimer = 0)


----------------------------------------------------------------------------
(* Properties of the waypoint queries, under SpecWaypoints *)

\* the waypoint and the lane a getNextWaypoint query was about
AskedWaypoint == net.waypoints[call.currentWpId]
AskedLane == LaneOfWaypoint(net, AskedWaypoint)[1]

\* a finished getNextWaypoint(w, d) where w ends its lane and d steps past the end
LaneEndQuery ==
    /\ pc = "returned"
    /\ call.op = "getNextWaypoint"
    /\ call.currentWpId \in DOMAIN net.waypoints
    /\ \/ /\ call.direction > 0
          /\ AskedLane.waypoints[Len(AskedLane.waypoints)] = call.currentWpId
       \/ /\ call.direction < 0
          /\ AskedLane.waypoints[1] = call.currentWpId

\* the intersections within 15 units of the waypoint asked about, by index
IntersectionsNearAsked ==
    {k \in 1..Len(net.intersections) :
        DistLess(net.intersections[k].position.x - AskedWaypoint.position.x,
                 net.intersections[k].position.z - AskedWaypoint.position.z, 15 * PScale)}

\* segment s starts or ends within 15 units of intersection i
SegmentMeets(s, i) ==
    \/ DistLess(i.position.x - s.start.x, i.position.z - s.start.z, 15 * PScale)
    \/ DistLess(i.position.x - s.end.x, i.position.z - s.end.z, 15 * PScale)

\* C24: for a lane-end waypoint w and a direction d that steps past the lane's
\* bounds, getNextWaypoint(w, d) is findConnectingWaypoint(w, d); with no
\* intersection within 15 units of w it is the waypoint at the opposite end of the
\* same lane (index 0 for d > 0, the last index for d < 0); with an intersection
\* within 15 units it is the first (lane direction +1) or last (lane direction -1)
\* waypoint of a lane of another segment that starts or ends within 15 units of
\* that intersection
C24_LaneEndConnects ==
    LaneEndQuery =>
        /\ ret.value = findConnectingWaypoint(net, AskedWaypoint, call.direction, call.random)
        /\ IF IntersectionsNearAsked = {}
           THEN ret.value =
                    net.waypoints[AskedLane.waypoints[
                        IF call.direction > 0 THEN 1 ELSE Len(AskedLane.waypoints)]]
           ELSE LET first == CHOOSE k \in IntersectionsNearAsked :
                                 \A j \in IntersectionsNearAsked : k <= j
                IN  \E k \in 1..Len(net.lanes) : \E s \in 1..Len(net.segments) :
                      /\ net.lanes[k].segmentId # AskedWaypoint.segmentId
                      /\ net.segments[s].id = net.lanes[k].segmentId
                      /\ SegmentMeets(net.segments[s], net.intersections[first])
                      /\ ret.value =
                            net.waypoints[net.lanes[k].waypoints[
                                IF net.lanes[k].direction > 0 THEN 1
                                ELSE Len(net.lanes[k].waypoints)]]

\* a query at the last waypoint of a lane going forward came back with the
\* lane's first waypoint, a different one
C24_Witness ==
    /\ LaneEndQuery
    /\ call.direction > 0
    /\ IntersectionsNearAsked = {}
    /\ ret.value = net.waypoints[AskedLane.waypoints[1]]
    /\ ret.value.id # call.currentWpId

\* a query at the first waypoint of a lane going backward came back with the
\* lane's last waypoint
C24_WitnessBackward ==
    /\ LaneEndQuery
    /\ call.direction < 0
    /\ ret.value = net.waypoints[AskedLane.waypoints[Len(AskedLane.waypoints)]]
    /\ ret.value.id # call.currentWpId

\* what the code does at a lane end: without an intersection within 15 units the
\* lane's opposite end; with one, null, since no segment of the network starts or
\* ends within 15 units of the intersection a side street ends at, other than
\* that side street
C24_CodeBehaviour ==
    LaneEndQuery =>
        /\ ret.value = findConnectingWaypoint(net, AskedWaypoint, call.direction, call.random)
        /\ IF IntersectionsNearAsked = {}
           THEN ret.value =
                    net.waypoints[AskedLane.waypoints[
                        IF call.direction > 0 THEN 1 ELSE Len(AskedLane.waypoints)]]
           ELSE /\ ret.value = null
                /\ StartsWith(AskedWaypoint.segmentId, "side")

\* a query at the end of a side street came back with null
C24_DeadEnd ==
    /\ LaneEndQuery
    /\ IntersectionsNearAsked # {}
    /\ ret.value = null

\* a finished waypoint query of the network or of a vehicle
WaypointQueryDone ==
    /\ pc = "returned"
    /\ call.op \in {"getNextWaypoint", "NPCVehicle.getNextWaypoint"}

\* w is one of the waypoint objects the network holds
ExistingWaypoint(w) == w.id \in DOMAIN net.waypoints /\ net.waypoints[w.id] = w

\* C26: missing lookups never abort: for an unknown waypoint id, a waypoint with
\* no intersection nearby and an intersection with no connecting lane, both
\* CityRoadNetwork.getNextWaypoint and NPCVehicle.getNextWaypoint (lane direction
\* +1 and -1) return null or an existing waypoint and raise no error
C26_MissingLookupsNeverAbort ==
    WaypointQueryDone =>
        /\ ret.value # TypeError
        /\ ret.value = null \/ ExistingWaypoint(ret.value)

\* what the code does: the network's query always yields null or a waypoint; the
\* vehicle's query throws exactly when its currentWaypointId is not a waypoint of
\* its lane and the lane runs in direction -1, and yields null or a waypoint
\* otherwise
C26_CodeBehaviour ==
    WaypointQueryDone =>
        IF /\ call.op = "NPCVehicle.getNextWaypoint"
           /\ call.currentLane # 0
           /\ call.currentWaypointId = "unknown"
           /\ net.lanes[call.currentLane].direction < 0
        THEN ret.value = TypeError
        ELSE ret.value = null \/ ExistingWaypoint(ret.value)

\* the network's query for an id it does not hold came back with null
C26_UnknownIdGivesNull ==
    /\ pc = "returned"
    /\ call.op = "getNextWaypoint"
    /\ call.currentWpId = "unknown"
    /\ ret.value = null

\* the vehicle's query for an id its lane does not hold, on a lane of direction
\* +1, came back with the lane's first waypoint
C26_UnknownIdForward ==
    /\ pc = "returned"
    /\ call.op = "NPCVehicle.getNextWaypoint"
    /\ call.currentLane # 0
    /\ call.currentWaypointId = "unknown"
    /\ ret.value = net.waypoints[net.lanes[call.currentLane].waypoints[1]]

----------------------------------------------------------------------------
(* Properties of a vehicle at a red light, under SpecVehicles *)

\* the offset from a position to the light vehicle k was asked to stop for in the
\* last frame, along and across heading h, in 1/PScale
AlongTo(k, position, h) ==
    LET lightPos == TrafficLight_getPosition(trafficLights[SignalQuery(k).intersection])
    IN  Unscaled((lightPos.x - position.x) * SinQ(h) + (lightPos.z - position.z) * CosQ(h))
AcrossTo(k, position, h) ==
    LET lightPos == TrafficLight_getPosition(trafficLights[SignalQuery(k).intersection])
    IN  Unscaled((lightPos.x - position.x) * CosQ(h) - (lightPos.z - position.z) * SinQ(h))

\* before the last frame vehicle k had a red or yellow light closer than 15
\* ahead and headed for the intersection: the center lay less than half the
\* width of a main road (7) to its side
ApproachingRed(k) ==
    /\ SignalQuery(k).shouldStop
    /\ SignalQuery(k).distance < 15 * PScale
    /\ Abs(AcrossTo(k, ret.before[k].position, ret.before[k].rotation)) < 7 * PScale

\* after the last frame the light vehicle k was approaching lies behind the
\* vehicle, taken along the heading it had, and still shows red or yellow to its
\* approach
PassedCenterOnRed(k) ==
    LET id == SignalQuery(k).intersection
        lightPos == TrafficLight_getPosition(trafficLights[id])
        before == [x |-> lightPos.x - ret.before[k].position.x,
                   z |-> lightPos.z - ret.before[k].position.z]
        phase == trafficLights[id].phases[trafficLights[id].currentPhaseIndex + 1]
        aspect == IF Abs(before.x) > Abs(before.z) THEN phase.ew ELSE phase.ns
    IN  /\ aspect \in {"red", "yellow"}
        /\ AlongTo(k, vehicles[k].position, ret.before[k].rotation) < 0

\* C27: a vehicle driving toward a signaled intersection whose aspect for its
\* approach stays red or yellow comes to rest before the intersection center: in
\* no frame does it move past the center while the aspect is still red or yellow
C27_RestsBeforeCenter ==
    ret.kind = "frame" =>
        \A k \in 1..Len(vehicles) : ApproachingRed(k) => ~PassedCenterOnRed(k)

\* what the code does: the vehicle brakes at 25 per second from the frame in
\* which the light is closer than 15; where that does not bring it to rest in
\* time it moves past the center, still braking, with a positive speed
C27_CodeBehaviour ==
    ret.kind = "frame" =>
        \A k \in 1..Len(vehicles) :
            ApproachingRed(k) =>
                /\ vehicles[k].speed = Max(0, ret.before[k].speed - BrakeStep)
                /\ PassedCenterOnRed(k) => ret.before[k].speed > BrakeStep

\* a vehicle has moved past the center of a red light and is 'driving' or
\* 'accelerating' one frame later, the light still red
C27_DrivingPastRed ==
    /\ ret.kind = "frame"
    /\ \E k \in 1..Len(vehicles) : \E id \in DOMAIN trafficLights :
          LET lightPos == TrafficLight_getPosition(trafficLights[id])
              to == [x |-> lightPos.x - vehicles[k].position.x,
                     z |-> lightPos.z - vehicles[k].position.z]
              phase == trafficLights[id].phases[trafficLights[id].currentPhaseIndex + 1]
              aspect == IF Abs(to.x) > Abs(to.z) THEN phase.ew ELSE phase.ns
          IN  /\ ret.before[k].state = "stopping"
              /\ vehicles[k].state \in {"accelerating", "driving"}
              /\ vehicles[k].speed > 0
              /\ aspect = "red"
              /\ DistLess(to.x, to.z, 15 * PScale)
              /\ to.x * SinQ(vehicles[k].rotation) + to.z * CosQ(vehicles[k].rotation) < 0

----------------------------------------------------------------------------
(* Properties of the green wave over time, under SpecWave *)

\* where a light stands in its cycle: the durations of the phases before the
\* current one plus the phase timer
RECURSIVE DurationsBefore(_, _)
DurationsBefore(light, i) ==
    IF i = 0 THEN 0 ELSE light.phases[i].duration + DurationsBefore(light, i - 1)
CyclePosition(light) == DurationsBefore(light, light.currentPhaseIndex) + light.phaseTimer

CycleLength == TrafficLight_getTotalCycleDuration(trafficLights["first"])

\* the difference of the two cycle positions is the difference of the seeds
DifferenceKept ==
    (CyclePosition(trafficLights["second"]) - CyclePosition(trafficLights["first"])
        + CycleLength) % CycleLength
    = (call.offsets[2] - call.offsets[1] + CycleLength) % CycleLength

\* every light that has entered phase 0 twice did so one cycle length apart
ExactPeriods ==
    \A id \in DOMAIN trafficLights : call.period[id] >= 0 => call.period[id] = CycleLength

\* the run has one tick length, and every phase duration and both seeds are
\* whole multiples of it
WaveAligned ==
    /\ Len(call.ticks) = 1
    /\ DeltaDividesPhases(trafficLights["first"], call.ticks[1])
    /\ call.offsets[1] % call.ticks[1] = 0
    /\ call.offsets[2] % call.ticks[1] = 0

----------------------------------------------------------------------------
(* Properties of the single state assignments of a tick, under SpecCity *)

\* vehicle k of the last frame after checkTrafficLights alone
Signalled(k) == checkTrafficLights(ret.before[k], trafficLights)

\* vehicle k of the last frame after updateState
Decided(k) == updateState(Scanned(k), call.delta)

\* one assignment took the state from a to b, made by a vehicle of the given speed
StateEdge(a, b, speed) ==
    \/ b = "stopping"
    \/ b = "waiting" /\ a = "stopping" /\ speed * 2 < VScale
    \/ b = "accelerating" /\ a \in {"stopping", "waiting"}
    \/ b = "driving" /\ a = "accelerating"

\* C29: a vehicle starts in 'driving', and each assignment of a tick (in
\* checkTrafficLights, in checkVehicleAhead, in updateState) that changes the
\* state makes it 'waiting' only from 'stopping' with speed < 0.5, 'accelerating'
\* only from 'stopping' or 'waiting', 'driving' only from 'accelerating', or
\* 'stopping' from any state; the rest of the tick leaves the state alone
C29_AssignmentEdges ==
    /\ (ret.kind # "frame") => \A k \in 1..Len(vehicles) : vehicles[k].state = "driving"
    /\ (ret.kind = "frame") =>
          \A k \in 1..Len(vehicles) :
              LET v0 == ret.before[k]
                  v1 == Signalled(k)
                  v2 == Scanned(k)
                  v3 == Decided(k)
              IN  /\ v1.state = v0.state \/ StateEdge(v0.state, v1.state, v0.speed)
                  /\ v2.state = v1.state \/ StateEdge(v1.state, v2.state, v1.speed)
                  /\ v3.state = v2.state \/ StateEdge(v2.state, v3.state, v2.speed)
                  /\ vehicles[k].state = v3.state

\* in one tick a vehicle went from 'stopping' to 'accelerating' in
\* checkTrafficLights and on to 'driving' in updateState
C29_Witness ==
    /\ ret.kind = "frame"
    /\ \E k \in 1..Len(vehicles) :
          /\ ret.before[k].state = "stopping"
          /\ Signalled(k).state = "accelerating"
          /\ Scanned(k).state = "accelerating"
          /\ vehicles[k].state = "driving"

\* in one tick a 'stopping' vehicle slower than 0.5 became 'waiting'
C29_StoppingToWaiting ==
    /\ ret.kind = "frame"
    /\ \E k \in 1..Len(vehicles) :
          /\ Scanned(k).state = "stopping"
          /\ Scanned(k).speed * 2 < VScale
          /\ vehicles[k].state = "waiting"
----------------------------------------------------------------------------
(* Properties of vehicles that hold each other, under SpecCityFair *)

\* in their last checkVehicleAhead vehicles j and k each found the other as the
\* vehicle ahead, closer than safeDistance
MutualHold(j, k) ==
    /\ j # k
    /\ vehicles[j].vehicleAhead = k
    /\ vehicles[k].vehicleAhead = j
    /\ vehicles[j].distanceToVehicleAhead < safeDistance * PScale
    /\ vehicles[k].distanceToVehicleAhead < safeDistance * PScale

\* vehicle k is 'stopping' or 'waiting', held by a vehicle that it holds itself,
\* and the run lasts long enough for a released vehicle to reach any speed
HeldByOther(k) ==
    /\ k <= Len(vehicles)
    /\ vehicles[k].state \in {"stopping", "waiting"}
    /\ \E j \in 1..Len(vehicles) : MutualHold(j, k)
    /\ call.time + SpinUp <= call.horizon

\* vehicle k is 'accelerating' with a positive speed
GoingAgain(k) ==
    /\ k <= Len(vehicles)
    /\ vehicles[k].state = "accelerating"
    /\ vehicles[k].speed > 0

\* C30: no permanent blocking: a vehicle that is 'stopping' or 'waiting' because
\* it and another vehicle each see the other as the vehicle ahead within
\* safeDistance eventually is 'accelerating' with a positive speed again
C30_NoPermanentBlock ==
    \A k \in 1..MaxCityVehicles : HeldByOther(k) ~> GoingAgain(k)

\* what the code does: two vehicles at rest in the same place stay there in
\* every frame, whatever the lights show: each finds the other ahead at distance
\* 0, is set 'stopping' and ends the frame 'waiting' with speed 0
C30_CodeBehaviour ==
    ret.kind = "frame" =>
        \A j, k \in 1..Len(vehicles) :
            (/\ j # k
             /\ ret.before[j].position = ret.before[k].position
             /\ ret.before[j].speed = 0
             /\ ret.before[k].speed = 0)
                => /\ vehicles[j].position = ret.before[j].position
                   /\ vehicles[k].position = vehicles[j].position
                   /\ vehicles[j].speed = 0
                   /\ vehicles[k].speed = 0
                   /\ vehicles[j].state = "waiting"
                   /\ vehicles[k].state = "waiting"
                   /\ MutualHold(j, k)

\* two vehicles spawned at the same waypoint have braked for each other to rest
\* in the same place and are still held there three seconds after the first
\* frame, no light within 15 of them requiring a stop
C30_HeldAtRest ==
    /\ ret.kind = "frame"
    /\ Len(vehicles) = 2
    /\ MutualHold(1, 2)
    /\ vehicles[1].position = vehicles[2].position
    /\ vehicles[1].speed = 0
    /\ vehicles[2].speed = 0
    /\ call.time >= 3 * TScale
    /\ ~SignalQuery(1).shouldStop
    /\ ~SignalQuery(2).shouldStop

----------------------------------------------------------------------------
(* Properties of the end of a segment, under SpecRoute *)

\* in the last frame vehicle k came within 3 of its target with segmentProgress
\* 0.95, so that pickNextSegment ran
ReachedEnd(k) ==
    /\ ret.before[k].currentSegment # 0
    /\ ret.before[k].segmentProgress = 95
    /\ vehicles[k].segmentProgress = 0

\* the end of its segment that vehicle k had reached, and the other one
EndReached(k) ==
    LET seg == net.segments[ret.before[k].currentSegment]
        p == ret.before[k].position
    IN  IF Hypot(p.x - seg.end.x, p.z - seg.end.z) <= Hypot(p.x - seg.start.x, p.z - seg.start.z)
        THEN [reached |-> seg.end, other |-> seg.start]
        ELSE [reached |-> seg.start, other |-> seg.end]

\* the look-ahead target of vehicle k lies nearer to the end it had reached than
\* to the other end
TargetNearEndReached(k) ==
    LET target == getTargetPointOnSegment(vehicles[k])
        ends == EndReached(k)
    IN  Hypot(target.x - ends.reached.x, target.z - ends.reached.z)
            < Hypot(target.x - ends.other.x, target.z - ends.other.z)

\* C25: when segmentProgress reaches 1 and no other segment starts or ends within
\* 15 of the vehicle, it stays on its segment and goes back along it, its next
\* look-ahead target lying on the side of the end it has reached; when there is
\* such a segment it is bound to one of them with segmentProgress 0; in every
\* case segmentProgress is below 1 at the end of the frame
C25_EndOfSegment ==
    ret.kind = "frame" =>
        \A k \in 1..Len(vehicles) :
            /\ vehicles[k].segmentProgress < 100
            /\ ReachedEnd(k) =>
                  LET candidates == NextSegmentCandidates(ret.before[k])
                  IN  IF Len(candidates) = 0
                      THEN /\ vehicles[k].currentSegment = ret.before[k].currentSegment
                           /\ TargetNearEndReached(k)
                      ELSE /\ IndexOf(candidates, vehicles[k].currentSegment) >= 0
                           /\ vehicles[k].segmentProgress = 0

\* what the code does: with no such segment the vehicle stays on its segment,
\* segmentDirection changes sign, and the next target is again the point 0.2 of
\* the way from the segment's start, on the side of the end the vehicle has not
\* reached; the rest is as stated
C25_CodeBehaviour ==
    ret.kind = "frame" =>
        \A k \in 1..Len(vehicles) :
            /\ vehicles[k].segmentProgress < 100
            /\ ReachedEnd(k) =>
                  LET candidates == NextSegmentCandidates(ret.before[k])
                      seg == net.segments[ret.before[k].currentSegment]
                  IN  IF Len(candidates) = 0
                      THEN /\ vehicles[k].currentSegment = ret.before[k].currentSegment
                           /\ vehicles[k].segmentDirection = -ret.before[k].segmentDirection
                           /\ EndReached(k).reached = seg.end
                           /\ getTargetPointOnSegment(vehicles[k])
                                 = getTargetPointOnSegment(
                                       [ret.before[k] EXCEPT !.segmentProgress = 0])
                           /\ ~TargetNearEndReached(k)
                      ELSE /\ IndexOf(candidates, vehicles[k].currentSegment) >= 0
                           /\ vehicles[k].segmentProgress = 0

\* a vehicle has reached the end of main-v0, where no other segment starts or
\* ends within 15, and stays on it
C25_Reversed ==
    /\ ret.kind = "frame"
    /\ ReachedEnd(1)
    /\ Len(NextSegmentCandidates(ret.before[1])) = 0
    /\ vehicles[1].currentSegment = ret.before[1].currentSegment

\* a vehicle has reached the end of main-v1 and is bound to another segment
C25_Rebound ==
    /\ ret.kind = "frame"
    /\ ReachedEnd(1)
    /\ vehicles[1].currentSegment # ret.before[1].currentSegment

====
